---- MODULE Spec2Model ----
(***************************************************************************)
(* State-machine model of go-textile-thread: the collection engine (DB     *)
(* lock, transactions, dispatcher, reducer, listeners), the replication    *)
(* server (PushRecord, PushLog, record pulls) and two replicating peers.   *)
(* Each subsystem has its own specification over the shared variables.     *)
(***************************************************************************)
EXTENDS Integers, Sequences, FiniteSets, TLC

(* ------------------------------------------------------------------------ *)
(* Bounds                                                                   *)
(* ------------------------------------------------------------------------ *)
\* longest action buffer of one transaction
MaxActions == 2
\* number of batches the local event codec stamps
MaxClock == 2
\* number of remote records handed to HandleNetRecord
MaxRemote == 1
\* longest event list of a remote record
MaxRemoteLen == 1
\* records the sending peer appends to its log
MaxRecords == 2
\* records each of the two replicating peers commits
MaxCommits == 2
\* threads two peers exchange edges for
MaxThreads == 3
\* distinct values of an address or heads edge
MaxEdge == 2
\* local edge changes while an exchange is in flight
MaxChanges == 1
\* threads the call queues are driven for
MaxQueueThreads == 2
\* goroutines inside Call for one (queue, thread) at a time
MaxCallers == 1

(* ------------------------------------------------------------------------ *)
(* State: one DB, the replication server of a receiving peer, two peers    *)
(* ------------------------------------------------------------------------ *)
VARIABLES
  lock,        \* DB.lock: the write holder and the set of read holders
  store,       \* datastore: instance key -> JSON bytes
  index,       \* datastore: index key -> keyList
  dstore,      \* dispatcher store: event key -> event
  clock,       \* batches stamped by the local event codec
  nremote,     \* remote records handed to HandleNetRecord
  wpc,         \* position of the goroutine running writeTxn
  txn,         \* its Txn
  fres,        \* what f returned
  last,        \* the most recent Txn call and its outcome
  disp,        \* the Dispatch call in progress
  listeners,   \* stateChangedNotifee.listeners: filters and channel of each
  recv,        \* the last action a listener's consumer took from the channel
  recvOrdered, \* the consumer never took an action out of batch order
  bus,         \* nodes sent on the local events bus
  rpc,         \* position of the goroutine running readTxn
  rsnap,       \* the instances as they were when the read txn opened
  robs         \* the last FindByID of the read txn

VARIABLES
  slen,     \* sender: records appended to its log L1 so far
  xkey,     \* receiver: thread key held ("none", "service", "full")
  xpub,     \* receiver: logs whose public key is stored
  xhead,    \* receiver: head of each log (0: undefined)
  xknown,   \* receiver: cids of the records in its block store
  xacc,     \* receiver: every acceptance, with the head it replaced
  xcount,   \* receiver: times each record was stored and delivered
  xqueue,   \* receiver: a GetRecords call to the sender is scheduled
  calls     \* PushRecord calls: position, result, follow-up

VARIABLES
  pstore,   \* each peer's datastore: instance key -> JSON bytes
  pindex,   \* each peer's indexes
  plog,     \* each peer's own log: the event list of every record
  papplied  \* per peer and log: records of that log handed to HandleNetRecord

VARIABLES
  qpend,    \* call queues: priority of the pending call per (queue, thread)
  qwait,    \* call queues: callers inside Call waiting for the slot
  qrun      \* call queues: calls executing per (queue, thread)

VARIABLES
  ledge,    \* address and heads edge of each thread at each peer (0: none)
  epc,      \* position of the exchangeEdges call
  ereq,     \* the request body: one entry per thread with local edges
  ereply,   \* the reply: one edge entry per request entry
  esched,   \* (queue, thread) pairs exchangeEdges called Schedule for
  echanges  \* local edge changes made while the exchange was in flight

VARIABLES
  ustore,   \* a collection with a secondary index: instance key -> JSON
  uindex,   \* its index entries: (path, value) -> keyList
  uindexes, \* c.indexes: the indexes registered for the collection
  usince,   \* the index on the secondary path was there before any instance
  ulast,    \* the last Create/Save/Delete call and its outcome
  ufind     \* the last Find on the collection and what it returned

VARIABLES
  mopen,    \* a Manager is open on the datastore
  mdbs,     \* Manager.dbs: thread id -> whether the map holds a DB
  mlive,    \* DB instances in memory per thread id
  mnet,     \* the threads the network's log store holds
  mds,      \* the shared datastore: collection schemas under /manager/<id>
  mcolls,   \* the collections registered in the DB of the map
  mcall,    \* the NewDB / NewDBFromAddr call of each caller
  mok,      \* thread ids for which NewDB or NewDBFromAddr returned a DB
  mbefore,  \* the collections each DB had when the Manager was closed
  mrestarts \* times the Manager was closed

VARIABLES
  astored,  \* log store of a serving peer: thread -> service key (or none)
  alogs,    \* logs with records it holds per thread
  alast,    \* the last GetLogs / GetRecords request and its reply
  xlast     \* receiver: the last PushLog that carried keys, and its outcome

VARIABLES
  klock,    \* closing DB: holder of the DB lock ("free", "Close", "dispatch")
  kclose,   \* position of DB.Close
  kchan,    \* the adapter's closeChan is closed
  kt2s,     \* position of the threadToStore task
  ks2t,     \* position of the storeToThread task
  ksub,     \* remote records waiting on the thread subscription
  kloc,     \* local events waiting on the local event listener
  kdisp,    \* remote records dispatched to the reducers
  kadded    \* local event nodes added to the own log

VARIABLES
  dconns,   \* server.conns: peer -> state of the cached connection
  dlk,      \* holder of the server's connection-cache lock
  dial,     \* the dial in progress
  dres,     \* outcome of the last dial that returned
  wdb,      \* holder of the DB lock
  wstream,  \* a WriteTransaction stream of the API service
  wrec      \* HandleNetRecord for one remote record

VARIABLES
  zlock,    \* holder of dispatcher.lock
  zcall,    \* per caller: position in dispatcher.Dispatch
  zstore,   \* events persisted in the event store, in order
  zred      \* per reducer: the events it reduced, in order

VARIABLES
  harr,     \* backing array of stateChangedNotifee.listeners (Nil: a nil slot)
  hlen,     \* length of the listeners slice
  hchan,    \* per listener: times close() ran on its channel, actions buffered
  hnotify,  \* position of a notify call in its loop over the listeners
  hclose,   \* per listener: position of Listener.Close
  hdb,      \* DB.closed
  hpanic    \* the panic that ended the process, or "none"

VARIABLES
  gservice, \* log store of one thread: its service key is stored
  gkeys,    \* logs with a stored public key
  gaddrs,   \* logs with stored addresses
  glast     \* outcome of the last GetThread

VARIABLES
  ppc,      \* getRecords of the requester: "idle" or "pulling"
  preq,     \* the request sent to every peer: offset and limit of the log
  pst,      \* per peer goroutine: "called", "replied" or "done"
  preply,   \* per peer: the verified records of its reply, in reply order
  ppos,     \* per peer: how many records of the reply went through Store
  precs     \* the collector: map m, list s of the log, and the gap panic

dbvars == <<lock, store, index, dstore, clock, nremote, wpc, txn, fres, last,
            disp, listeners, recv, recvOrdered, bus, rpc, rsnap, robs>>

netvars == <<slen, xkey, xpub, xhead, xknown, xacc, xcount, xqueue, calls>>

replvars == <<pstore, pindex, plog, papplied>>

queuevars == <<qpend, qwait, qrun>>

edgevars == <<ledge, epc, ereq, ereply, esched, echanges>>

uniqvars == <<ustore, uindex, uindexes, usince, ulast, ufind>>

mgrvars == <<mopen, mdbs, mlive, mnet, mds, mcolls, mcall, mok, mbefore,
             mrestarts>>

authvars == <<astored, alogs, alast, xlast>>

closevars == <<klock, kclose, kchan, kt2s, ks2t, ksub, kloc, kdisp, kadded>>

callvars == <<dconns, dlk, dial, dres, wdb, wstream, wrec>>

dispvars == <<zlock, zcall, zstore, zred>>

lifevars == <<harr, hlen, hchan, hnotify, hclose, hdb, hpanic>>

logvars == <<gservice, gkeys, gaddrs, glast>>

pullvars == <<ppc, preq, pst, preply, ppos, precs>>

latevars == <<closevars, callvars, dispvars, lifevars, logvars, pullvars>>

restvars == <<mgrvars, authvars, latevars>>

othervars == <<uniqvars, restvars>>

vars == <<dbvars, netvars, replvars, queuevars, edgevars, othervars>>

\* what the actions of one subsystem leave alone
OutsideDB == UNCHANGED <<netvars, replvars, queuevars, edgevars, othervars>>

OutsideNet == UNCHANGED <<dbvars, replvars, queuevars, edgevars, othervars>>

OutsideRepl == UNCHANGED <<dbvars, netvars, queuevars, edgevars, othervars>>

OutsideQueue == UNCHANGED <<dbvars, netvars, replvars, edgevars, othervars>>

OutsideUnique ==
  UNCHANGED <<dbvars, netvars, replvars, queuevars, edgevars, restvars>>

\* the frame of every subsystem before the Manager
CoreFrame ==
  UNCHANGED <<dbvars, netvars, replvars, queuevars, edgevars, uniqvars>>

OutsideMgr == CoreFrame /\ UNCHANGED <<authvars, latevars>>

OutsideAuth == CoreFrame /\ UNCHANGED <<mgrvars, latevars>>

EarlyFrame == CoreFrame /\ UNCHANGED <<mgrvars, authvars>>

OutsideClose == EarlyFrame /\ UNCHANGED <<callvars, dispvars, lifevars, logvars, pullvars>>

OutsideCalls == EarlyFrame /\ UNCHANGED <<closevars, dispvars, lifevars, logvars, pullvars>>

OutsideDispatcher == EarlyFrame /\ UNCHANGED <<closevars, callvars, lifevars, logvars, pullvars>>

OutsideLife == EarlyFrame /\ UNCHANGED <<closevars, callvars, dispvars, logvars, pullvars>>

OutsidePull ==
  EarlyFrame /\ UNCHANGED <<closevars, callvars, dispvars, lifevars, logvars>>

OutsideLogs == EarlyFrame /\ UNCHANGED <<closevars, callvars, dispvars, lifevars, pullvars>>

OutsideEdges == UNCHANGED <<dbvars, netvars, replvars, qwait, qrun, othervars>>

(* ------------------------------------------------------------------------ *)
(* Values                                                                   *)
(* ------------------------------------------------------------------------ *)
Nil == "nil"
IDs == {"i1", "i2"}
Bodies == {"a", "b"}
idFieldName == "_id"
\* c.indexes after addIndexes: the unique index on _id
Indexes == <<[Path |-> idFieldName, Unique |-> TRUE]>>
IndexKeys == {<<Indexes[n].Path, v>> : n \in 1..Len(Indexes), v \in IDs \cup Bodies}
ActionCreate == "Create"
ActionSave == "Save"
ActionDelete == "Delete"
ActionTypes == {ActionCreate, ActionSave, ActionDelete}
\* capacity of a listener channel: make(chan Action, 1)
ChanCap == 1

\* bytes.Compare on instance keys
KeyRank(k) == IF k = "i1" THEN 1 ELSE 2

(* ------------------------------------------------------------------------ *)
(* Index maintenance (collection.go)                                        *)
(* ------------------------------------------------------------------------ *)
\* sort.Search(len(v), func(i) { return bytes.Compare(v[i], b) >= 0 }), 1-based
SearchPos(v, b) ==
  IF \E i \in 1..Len(v) : KeyRank(v[i]) >= KeyRank(b)
  THEN CHOOSE i \in 1..Len(v) :
         /\ KeyRank(v[i]) >= KeyRank(b)
         /\ \A j \in 1..(i - 1) : KeyRank(v[j]) < KeyRank(b)
  ELSE Len(v) + 1

keyListAdd(v, b) ==
  LET i == SearchPos(v, b)
  IN IF i <= Len(v) /\ v[i] = b
     THEN v
     ELSE SubSeq(v, 1, i - 1) \o <<b>> \o SubSeq(v, i, Len(v))

keyListRemove(v, b) ==
  LET i == SearchPos(v, b)
  IN IF i <= Len(v)
     THEN SubSeq(v, 1, i - 1) \o SubSeq(v, i + 1, Len(v))
     ELSE v

\* gjson lookup of an index path in the instance JSON; Nil when not indexable
getIndexValue(field, key, input) ==
  IF input = Nil THEN Nil
  ELSE IF field = idFieldName THEN key ELSE input

\* faulty indexUpdate: the Unique flag of the index is not looked at
indexUpdateIgnoresUnique(idx, ix, key, input, delete) ==
  LET valueKey == getIndexValue(ix.Path, key, input)
      indexKey == <<ix.Path, valueKey>>
  IN IF valueKey = Nil THEN [err |-> FALSE, index |-> idx]
     ELSE [err |-> FALSE,
           index |-> [idx EXCEPT ![indexKey] =
                        IF delete THEN keyListRemove(@, key)
                                  ELSE keyListAdd(@, key)]]

\* result of an index operation: the error flag and the index afterwards
indexUpdate(idx, ix, key, input, delete) ==
  LET valueKey == getIndexValue(ix.Path, key, input)
      indexKey == <<ix.Path, valueKey>>
  IN IF valueKey = Nil THEN [err |-> FALSE, index |-> idx]
     ELSE IF idx[indexKey] # <<>> /\ ix.Unique /\ ~delete
          THEN [err |-> TRUE, index |-> idx]
          ELSE [err |-> FALSE,
                index |-> [idx EXCEPT ![indexKey] =
                             IF delete THEN keyListRemove(@, key)
                                       ELSE keyListAdd(@, key)]]

RECURSIVE indexAll(_, _, _, _, _)
\* the loop "for path, index := range c.indexes" of indexAdd and indexDelete
indexAll(idx, n, key, input, delete) ==
  IF n > Len(Indexes) THEN [err |-> FALSE, index |-> idx]
  ELSE LET r == indexUpdate(idx, Indexes[n], key, input, delete)
       IN IF r.err THEN r ELSE indexAll(r.index, n + 1, key, input, delete)

indexAdd(idx, key, data) == indexAll(idx, 1, key, data, FALSE)

indexDelete(idx, key, originalData) == indexAll(idx, 1, key, originalData, TRUE)

defaultIndexFunc(idx, key, oldData, newData) ==
  LET d == indexDelete(idx, key, oldData)
  IN IF d.err THEN d
     ELSE IF newData = Nil THEN d
     ELSE indexAdd(d.index, key, newData)

(* ------------------------------------------------------------------------ *)
(* Event codec (Create, Reduce) and the DB reducer                          *)
(* ------------------------------------------------------------------------ *)
Action(type, id, previous, current) ==
  [Type |-> type, InstanceID |-> id, Previous |-> previous, Current |-> current]

\* EventCodec.Create: one event per action, in the order of the actions, all
\* stamped with the same time; the body is the instance after the action
CodecCreate(actions, time) ==
  [n \in 1..Len(actions) |->
     [Type |-> actions[n].Type, InstanceID |-> actions[n].InstanceID,
      Body |-> actions[n].Current, Time |-> time]]

\* one event applied inside the datastore transaction of EventCodec.Reduce
ReduceEvent(s, e) ==
  LET old == s.store[e.InstanceID]
      new == IF e.Type = ActionDelete THEN Nil ELSE e.Body
      ir == defaultIndexFunc(s.index, e.InstanceID,
                             IF e.Type = ActionCreate THEN Nil ELSE old, new)
  IN IF s.err \/ (e.Type # ActionCreate /\ old = Nil) \/ ir.err
     THEN [s EXCEPT !.err = TRUE]
     ELSE [err |-> FALSE,
           store |-> [s.store EXCEPT ![e.InstanceID] = new],
           index |-> ir.index]

RECURSIVE ReduceFrom(_, _, _)
ReduceFrom(s, events, n) ==
  IF n > Len(events) THEN s
  ELSE ReduceFrom(ReduceEvent(s, events[n]), events, n + 1)

\* EventCodec.Reduce: all events of the batch in array order in one datastore
\* transaction; an error discards the transaction and yields no actions
CodecReduce(st, idx, events) ==
  LET r == ReduceFrom([err |-> FALSE, store |-> st, index |-> idx], events, 1)
  IN IF r.err
     THEN [err |-> TRUE, store |-> st, index |-> idx, actions |-> <<>>]
     ELSE [err |-> FALSE, store |-> r.store, index |-> r.index,
           actions |-> [n \in 1..Len(events) |->
                          [Type |-> events[n].Type,
                           InstanceID |-> events[n].InstanceID]]]

\* faulty DB.Reduce: the actions are filled in from the end of the list
ReduceActionsReversed(codecActions) ==
  [i \in 1..Len(codecActions) |->
     [Type |-> codecActions[Len(codecActions) + 1 - i].Type,
      ID |-> codecActions[Len(codecActions) + 1 - i].InstanceID]]

\* DB.Reduce: actions[i] = Action{Type: codecActions[i].Type, ID: ...}
ReduceActions(codecActions) ==
  [i \in 1..Len(codecActions) |->
     [Type |-> codecActions[i].Type, ID |-> codecActions[i].InstanceID]]

\* faulty DB.Reduce: the codec error is dropped
ReduceNotifiesAlways(codecErr) == TRUE

\* DB.Reduce: "if err != nil { return err }" before notifyStateChanged
ReduceNotifies(codecErr) == ~codecErr

\* faulty Dispatch: the reducers run whatever Put returned
AfterPutIgnoresError(putErr) == "reduce"

\* dispatcher.Dispatch: "if err := Put(...); err != nil { return err }"
AfterPut(putErr) == IF putErr THEN "return" ELSE "reduce"

\* dispatcher key <time>/<instance id>/<type>
EventKey(e) == <<e.Time, e.InstanceID, e.Type>>

RECURSIVE PutEvents(_, _, _)
PutEvents(ds, events, n) ==
  IF n > Len(events) THEN ds
  ELSE PutEvents({p \in ds : p.key # EventKey(events[n])}
                   \cup {[key |-> EventKey(events[n]), value |-> events[n]]},
                 events, n + 1)

\* the one collection of the modelled DB, and a collection it does not have
CollectionName == "C1"
OtherCollection == "C2"
AnyCollection == ""

\* listener.evaluate: no filters, or some filter matching type, collection
\* and instance id (every action of the model is of CollectionName)
evaluate(filters, a) ==
  \/ Len(filters) = 0
  \/ \E n \in 1..Len(filters) :
       /\ filters[n].Type \in {"All", a.Type}
       /\ filters[n].Collection \in {AnyCollection, CollectionName}
       /\ filters[n].ID \in {Nil, a.ID}

\* Listen: a listener with a channel of capacity ChanCap; open is false once
\* Close removed it, raced marks a Close that ran while notify was iterating,
\* parked that the consumer is blocked in a receive on the empty channel,
\* dropped records that a matching action found the channel full
NewListener(filters) ==
  [filters |-> filters, c |-> <<>>, open |-> TRUE, raced |-> FALSE,
   parked |-> FALSE, dropped |-> FALSE]

(* ------------------------------------------------------------------------ *)
(* Txn.Commit and the RW lock                                               *)
(* ------------------------------------------------------------------------ *)
\* Txn.Commit up to the Dispatch call: the error, the empty batch, the batch
CommitOutcome(t) ==
  IF t.discarded \/ t.commited THEN "err"
  ELSE IF Len(t.actions) = 0 THEN "nil"
  ELSE "dispatch"

\* faulty writeTxn: Commit is called whatever f returned
WriteTxnCommitsAlways(ferr) == TRUE

\* writeTxn: "if err := f(txn); err != nil { return err }; return txn.Commit()"
WriteTxnCommits(ferr) == ~ferr

\* sync.RWMutex: Lock and RLock
CanLock(l) == l.w = "none" /\ l.r = {}

\* faulty readTxn: no read lock is taken
CanRLockAlways(l) == TRUE

CanRLock(l) == l.w = "none"

(* ------------------------------------------------------------------------ *)
(* The DB after construction                                                *)
(* ------------------------------------------------------------------------ *)
EmptyStore == [i \in IDs |-> Nil]
EmptyIndex == [k \in IndexKeys |-> <<>>]
\* a Txn; start and startClock record the instances and the commit count
\* the transaction found when it was opened, partial the positions of the
\* actions buffered by a call that then returned an error
NoTxn == [discarded |-> TRUE, commited |-> FALSE, readonly |-> FALSE,
          actions |-> <<>>, done |-> FALSE, start |-> EmptyStore,
          startClock |-> 0, partial |-> {}]
NewTxn == [discarded |-> FALSE, commited |-> FALSE, readonly |-> FALSE,
           actions |-> <<>>, done |-> FALSE, start |-> EmptyStore,
           startClock |-> 0, partial |-> {}]
NoCall == [op |-> "none", term |-> FALSE, err |-> FALSE, eff |-> FALSE,
           arg |-> Nil, res |-> Nil]
NoDispatch == [phase |-> "none", owner |-> "none", events |-> <<>>,
               acts |-> <<>>, k |-> 0, err |-> FALSE, perr |-> FALSE,
               reduced |-> FALSE, rerr |-> FALSE, sent |-> 0, seq |-> 0]
NoObs == [id |-> Nil, val |-> Nil]
NoRecv == [seq |-> 0, k |-> 0]

\* the state after newDB and one Listen(filters...)
InitDBWith(filters) ==
  /\ lock = [w |-> "none", r |-> {}]
  /\ store = EmptyStore
  /\ index = EmptyIndex
  /\ dstore = {}
  /\ clock = 0
  /\ nremote = 0
  /\ wpc = "idle"
  /\ txn = NoTxn
  /\ fres = "none"
  /\ last = NoCall
  /\ disp = NoDispatch
  /\ listeners = <<NewListener(filters)>>
  /\ recv = <<NoRecv>>
  /\ recvOrdered = TRUE
  /\ bus = 0
  /\ rpc = "idle"
  /\ rsnap = EmptyStore
  /\ robs = NoObs

\* the state after newDB and one Listen() without filters
InitDB == InitDBWith(<<>>)

\* the transaction is over for its user: Discard was called or a Commit
\* returned nil
Terminal(t) == t.discarded \/ t.done

Call(op, err, eff) ==
  [op |-> op, term |-> Terminal(txn), err |-> err, eff |-> eff, arg |-> Nil,
   res |-> Nil]

\* the instances as the buffered actions of a transaction would leave them
RECURSIVE ApplyActions(_, _, _)
ApplyActions(st, actions, n) ==
  IF n > Len(actions) THEN st
  ELSE ApplyActions([st EXCEPT ![actions[n].InstanceID] = actions[n].Current],
                    actions, n + 1)

\* faulty reads: the buffered actions of the transaction are visible
TxnViewBuffered(st, actions) == ApplyActions(st, actions, 1)

\* Txn.Has, Txn.FindByID, Txn.Find read t.collection.db.datastore; the
\* buffered t.actions are not consulted
TxnView(st, actions) == st

\* what the reads return on a set of instances: Has (exists), FindByID (the
\* instance or ErrNotFound), Find with the criterion "body Eq arg"
ReadResult(op, arg, st) ==
  IF op = "Has" THEN st[arg] # Nil
  ELSE IF op = "FindByID" THEN st[arg]
  ELSE {i \in IDs : st[i] = arg}

StartDispatch(owner, events) ==
  [NoDispatch EXCEPT !.phase = "persist", !.owner = owner, !.events = events,
                     !.seq = clock + nremote + 1]

(* ------------------------------------------------------------------------ *)
(* Write transactions                                                       *)
(* ------------------------------------------------------------------------ *)
\* writeTxn: d.lock.Lock(); txn := &Txn{collection: c}; f(txn) starts
WriteTxnBegin ==
  /\ OutsideDB
  /\ wpc = "idle"
  /\ CanLock(lock)
  /\ clock < MaxClock
  /\ lock' = [lock EXCEPT !.w = "writer"]
  /\ txn' = [NewTxn EXCEPT !.start = store, !.startClock = clock]
  /\ wpc' = "f"
  /\ fres' = "none"
  /\ last' = NoCall
  /\ UNCHANGED <<store, index, dstore, clock, nremote, disp, listeners, recv,
                 recvOrdered, bus, rpc, rsnap, robs>>

\* what a buffering call leaves alone
BufferFrame ==
  UNCHANGED <<lock, store, index, dstore, clock, nremote, wpc, fres, disp,
              listeners, recv, recvOrdered, bus, rpc, rsnap, robs>>

TxnCreate(id, body) ==
  /\ OutsideDB
  /\ wpc = "f"
  /\ Len(txn.actions) < MaxActions
  /\ IF txn.readonly \/ store[id] # Nil
     THEN /\ last' = Call("Create", TRUE, FALSE)
          /\ UNCHANGED txn
     ELSE /\ txn' = [txn EXCEPT !.actions =
                       Append(@, Action(ActionCreate, id, Nil, body))]
          /\ last' = Call("Create", FALSE, TRUE)
  /\ BufferFrame

TxnSave(id, body) ==
  /\ OutsideDB
  /\ wpc = "f"
  /\ Len(txn.actions) < MaxActions
  /\ IF txn.readonly \/ store[id] = Nil
     THEN /\ last' = Call("Save", TRUE, FALSE)
          /\ UNCHANGED txn
     ELSE /\ txn' = [txn EXCEPT !.actions =
                       Append(@, Action(ActionSave, id, store[id], body))]
          /\ last' = Call("Save", FALSE, TRUE)
  /\ BufferFrame

TxnDelete(id) ==
  /\ OutsideDB
  /\ wpc = "f"
  /\ Len(txn.actions) < MaxActions
  /\ IF txn.readonly \/ store[id] = Nil
     THEN /\ last' = Call("Delete", TRUE, FALSE)
          /\ UNCHANGED txn
     ELSE /\ txn' = [txn EXCEPT !.actions =
                       Append(@, Action(ActionDelete, id, Nil, Nil))]
          /\ last' = Call("Delete", FALSE, TRUE)
  /\ BufferFrame

\* the id lists of a Delete of several instances
DeleteArgs == {ids \in [1..2 -> IDs] : ids[1] # ids[2]}

\* the loop of Txn.Delete over ids from position n: the first missing id
\* returns ErrNotFound, the actions appended before it stay in t.actions
RECURSIVE DeleteLoop(_, _, _)
DeleteLoop(actions, ids, n) ==
  IF n > Len(ids) THEN [err |-> FALSE, actions |-> actions]
  ELSE IF store[ids[n]] = Nil THEN [err |-> TRUE, actions |-> actions]
  ELSE DeleteLoop(Append(actions, Action(ActionDelete, ids[n], Nil, Nil)),
                  ids, n + 1)

\* Txn.Delete(ids...) with more than one id
TxnDeleteAll(ids) ==
  /\ OutsideDB
  /\ wpc = "f"
  /\ Len(txn.actions) + Len(ids) <= MaxActions
  /\ IF txn.readonly
     THEN /\ last' = [Call("DeleteAll", TRUE, FALSE) EXCEPT !.arg = ids]
          /\ UNCHANGED txn
     ELSE LET r == DeleteLoop(txn.actions, ids, 1)
              added == (Len(txn.actions) + 1)..Len(r.actions)
          IN /\ txn' = [txn EXCEPT
                          !.actions = r.actions,
                          !.partial = IF r.err THEN @ \cup added ELSE @]
             /\ last' = [Call("DeleteAll", r.err, added # {}) EXCEPT
                           !.arg = ids]
  /\ BufferFrame

\* Txn.Has returns (exists, nil)
TxnHas(id) ==
  /\ OutsideDB
  /\ wpc = "f"
  /\ last' = [Call("Has", FALSE, FALSE) EXCEPT
                !.arg = id,
                !.res = ReadResult("Has", id, TxnView(store, txn.actions))]
  /\ UNCHANGED txn
  /\ BufferFrame

\* Txn.FindByID returns ErrNotFound for a missing key
TxnFindByID(id) ==
  /\ OutsideDB
  /\ wpc = "f"
  /\ LET view == TxnView(store, txn.actions)
     IN last' = [Call("FindByID", view[id] = Nil, FALSE) EXCEPT
                   !.arg = id,
                   !.res = ReadResult("FindByID", id, view)]
  /\ UNCHANGED txn
  /\ BufferFrame

\* Txn.Find without use_index: the iterator scans the collection prefix of the
\* datastore and keeps the instances matching the query
TxnFind(body) ==
  /\ OutsideDB
  /\ wpc = "f"
  /\ last' = [Call("Find", FALSE, FALSE) EXCEPT
                !.arg = body,
                !.res = ReadResult("Find", body, TxnView(store, txn.actions))]
  /\ UNCHANGED txn
  /\ BufferFrame

TxnDiscard ==
  /\ OutsideDB
  /\ wpc = "f"
  /\ txn' = [txn EXCEPT !.discarded = TRUE]
  /\ last' = Call("Discard", FALSE, FALSE)
  /\ BufferFrame

\* Txn.Commit called by f: up to the Dispatch call
TxnCommit ==
  /\ OutsideDB
  /\ wpc = "f"
  /\ LET o == CommitOutcome(txn)
     IN \/ /\ o = "err"
           /\ last' = Call("Commit", TRUE, FALSE)
           /\ UNCHANGED <<txn, disp, clock, wpc>>
        \/ /\ o = "nil"
           /\ last' = Call("Commit", FALSE, FALSE)
           /\ txn' = [txn EXCEPT !.done = TRUE]
           /\ UNCHANGED <<disp, clock, wpc>>
        \/ /\ o = "dispatch"
           /\ clock < MaxClock
           /\ last' = Call("Commit", FALSE, TRUE)
           /\ disp' = StartDispatch("writer", CodecCreate(txn.actions, clock + 1))
           /\ clock' = clock + 1
           /\ wpc' = "commit"
           /\ UNCHANGED txn
  /\ UNCHANGED <<lock, store, index, dstore, nremote, fres, listeners, recv,
                 recvOrdered, bus, rpc, rsnap, robs>>

\* f returns nil or an error
FReturn(r) ==
  /\ OutsideDB
  /\ wpc = "f"
  /\ wpc' = "ret"
  /\ fres' = r
  /\ UNCHANGED <<lock, store, index, dstore, clock, nremote, txn, last, disp,
                 listeners, recv, recvOrdered, bus, rpc, rsnap, robs>>

\* the deferred txn.Discard() and d.lock.Unlock() of writeTxn
WriteTxnEnd ==
  /\ wpc' = "idle"
  /\ lock' = [lock EXCEPT !.w = "none"]

\* writeTxn after f returned: return the error, or call txn.Commit()
WriteTxnReturn ==
  /\ OutsideDB
  /\ wpc = "ret"
  /\ IF WriteTxnCommits(fres = "err")
     THEN LET o == CommitOutcome(txn)
          IN \/ /\ o \in {"err", "nil"}
                /\ last' = Call("Commit", o = "err", FALSE)
                /\ txn' = [txn EXCEPT !.discarded = TRUE,
                                      !.done = @ \/ o = "nil"]
                /\ WriteTxnEnd
                /\ UNCHANGED <<disp, clock>>
             \/ /\ o = "dispatch"
                /\ clock < MaxClock
                /\ last' = Call("Commit", FALSE, TRUE)
                /\ disp' = StartDispatch("writer",
                                         CodecCreate(txn.actions, clock + 1))
                /\ clock' = clock + 1
                /\ wpc' = "final"
                /\ UNCHANGED <<txn, lock>>
     ELSE /\ txn' = [txn EXCEPT !.discarded = TRUE]
          /\ WriteTxnEnd
          /\ UNCHANGED <<last, disp, clock>>
  /\ UNCHANGED <<store, index, dstore, nremote, fres, listeners, recv,
                 recvOrdered, bus, rpc, rsnap, robs>>

(* ------------------------------------------------------------------------ *)
(* Dispatch: persist, reduce, notify, return                                *)
(* ------------------------------------------------------------------------ *)
\* dispatcher.Dispatch: the events are put in the dispatcher store, or the put
\* fails and Dispatch returns its error
DispatchPersist(putErr) ==
  /\ OutsideDB
  /\ disp.phase = "persist"
  /\ dstore' = IF putErr THEN dstore ELSE PutEvents(dstore, disp.events, 1)
  /\ disp' = [disp EXCEPT !.phase = AfterPut(putErr), !.err = putErr,
                          !.perr = putErr]
  /\ UNCHANGED <<lock, store, index, clock, nremote, wpc, txn, fres, last,
                 listeners, recv, recvOrdered, bus, rpc, rsnap, robs>>

\* the registered reducer, DB.Reduce: the codec applies the batch, then the
\* actions are handed to notifyStateChanged; a codec error is returned at once
DispatchReduce ==
  /\ OutsideDB
  /\ disp.phase = "reduce"
  /\ LET r == CodecReduce(store, index, disp.events)
         acts == ReduceActions(r.actions)
     IN /\ store' = r.store
        /\ index' = r.index
        /\ IF ReduceNotifies(r.err)
           THEN disp' = [disp EXCEPT
                           !.phase = IF Len(acts) = 0 THEN "return" ELSE "notify",
                           !.acts = acts, !.k = 1, !.reduced = TRUE,
                           !.rerr = r.err]
           ELSE disp' = [disp EXCEPT !.phase = "return", !.err = TRUE,
                                     !.reduced = TRUE, !.rerr = r.err]
  /\ UNCHANGED <<lock, dstore, clock, nremote, wpc, txn, fres, last, listeners,
                 recv, recvOrdered, bus, rpc, rsnap, robs>>

\* stateChangedNotifee.notify, one action of the batch: a non-blocking send to
\* every listener of the list whose filters match; the action goes straight
\* to a consumer blocked in its receive, else into the buffer, and a full
\* channel drops it
DispatchNotify ==
  /\ OutsideDB
  /\ disp.phase = "notify"
  /\ LET a == disp.acts[disp.k]
         wants(l) == l.open /\ evaluate(l.filters, a)
         hands(l) == wants(l) /\ l.parked
         buffers(l) == wants(l) /\ ~l.parked /\ Len(l.c) < ChanCap
         takes(l) == hands(l) \/ buffers(l)
     IN /\ listeners' = [n \in DOMAIN listeners |->
                           IF hands(listeners[n])
                           THEN [listeners[n] EXCEPT !.parked = FALSE,
                                                     !.raced = FALSE]
                           ELSE IF buffers(listeners[n])
                           THEN [listeners[n] EXCEPT !.c =
                                   Append(@, [a |-> a, k |-> disp.k,
                                              seq |-> disp.seq]),
                                   !.raced = FALSE]
                           ELSE [listeners[n] EXCEPT
                                   !.raced = FALSE,
                                   !.dropped = @ \/ wants(listeners[n])]]
        /\ recv' = [n \in DOMAIN recv |->
                      IF hands(listeners[n])
                      THEN [seq |-> disp.seq, k |-> disp.k] ELSE recv[n]]
        /\ recvOrdered' =
             (recvOrdered /\ \A n \in DOMAIN listeners :
                hands(listeners[n]) =>
                  \/ disp.seq > recv[n].seq
                  \/ disp.seq = recv[n].seq /\ disp.k > recv[n].k)
        /\ disp' = [disp EXCEPT
                      !.k = @ + 1,
                      !.sent = @ + Cardinality({n \in DOMAIN listeners :
                                                  takes(listeners[n])}),
                      !.phase = IF disp.k = Len(disp.acts) THEN "return"
                                ELSE "notify"]
  /\ UNCHANGED <<lock, store, index, dstore, clock, nremote, wpc, txn, fres,
                 last, bus, rpc, rsnap, robs>>

\* notify ranges over scn.listeners without scn.lock: a Close that ran during
\* the iteration leaves it with the nil slot written by remove or with the
\* listener whose channel was closed, and evaluate or the send panics
DispatchNotifyPanics ==
  /\ OutsideDB
  /\ disp.phase = "notify"
  /\ \E n \in DOMAIN listeners : listeners[n].raced
  /\ disp' = [disp EXCEPT !.phase = "panic"]
  /\ UNCHANGED <<lock, store, index, dstore, clock, nremote, wpc, txn, fres,
                 last, listeners, recv, recvOrdered, bus, rpc, rsnap, robs>>

\* Dispatch returns to Txn.Commit, which returns the error or sends the node
\* on the local events bus (SendWithTimeout may time out); a Commit called by
\* f returns to f, the Commit of writeTxn ends the transaction
CommitReturn(busErr) ==
  /\ OutsideDB
  /\ disp.phase = "return"
  /\ disp.owner = "writer"
  /\ disp.err => ~busErr
  /\ bus' = IF disp.err \/ busErr THEN bus ELSE bus + 1
  /\ last' = [last EXCEPT !.err = disp.err \/ busErr]
  /\ disp' = NoDispatch
  /\ IF wpc = "commit"
     THEN /\ wpc' = "f"
          /\ txn' = [txn EXCEPT !.done = @ \/ ~(disp.err \/ busErr)]
          /\ UNCHANGED lock
     ELSE /\ txn' = [txn EXCEPT !.discarded = TRUE,
                                !.done = @ \/ ~(disp.err \/ busErr)]
          /\ WriteTxnEnd
  /\ UNCHANGED <<store, index, dstore, clock, nremote, fres, listeners, recv,
                 recvOrdered, rpc, rsnap, robs>>

(* ------------------------------------------------------------------------ *)
(* Remote records, read transactions, listeners                             *)
(* ------------------------------------------------------------------------ *)
RemoteEvents ==
  {[Type |-> ActionCreate, InstanceID |-> i, Body |-> b, Time |-> 0] :
     i \in IDs, b \in Bodies}
  \cup {[Type |-> ActionSave, InstanceID |-> i, Body |-> b, Time |-> 0] :
          i \in IDs, b \in Bodies}
  \cup {[Type |-> ActionDelete, InstanceID |-> i, Body |-> Nil, Time |-> 0] :
          i \in IDs}

RemoteBatches == UNION {[1..n -> RemoteEvents] : n \in 1..MaxRemoteLen}

\* HandleNetRecord: a record of the own log is ignored; the events of any
\* other record go to d.dispatch, which takes the write lock
HandleNetRecord(own, events) ==
  /\ OutsideDB
  /\ nremote < MaxRemote
  /\ nremote' = nremote + 1
  /\ IF own
     THEN UNCHANGED <<lock, disp>>
     ELSE /\ CanLock(lock)
          /\ lock' = [lock EXCEPT !.w = "net"]
          /\ disp' = StartDispatch("net", events)
  /\ UNCHANGED <<store, index, dstore, clock, wpc, txn, fres, last, listeners,
                 recv, recvOrdered, bus, rpc, rsnap, robs>>

\* d.dispatch returns: the deferred d.lock.Unlock()
NetDispatchReturn ==
  /\ OutsideDB
  /\ disp.phase = "return"
  /\ disp.owner = "net"
  /\ disp' = NoDispatch
  /\ lock' = [lock EXCEPT !.w = "none"]
  /\ UNCHANGED <<store, index, dstore, clock, nremote, wpc, txn, fres, last,
                 listeners, recv, recvOrdered, bus, rpc, rsnap, robs>>

\* readTxn: d.lock.RLock(); txn := &Txn{readonly: true}
ReadTxnBegin ==
  /\ OutsideDB
  /\ rpc = "idle"
  /\ CanRLock(lock)
  /\ lock' = [lock EXCEPT !.r = @ \cup {"reader"}]
  /\ rpc' = "open"
  /\ rsnap' = store
  /\ UNCHANGED <<store, index, dstore, clock, nremote, wpc, txn, fres, last,
                 disp, listeners, recv, recvOrdered, bus, robs>>

\* Txn.FindByID inside the read transaction
ReadFindByID(id) ==
  /\ OutsideDB
  /\ rpc = "open"
  /\ robs' = [id |-> id, val |-> store[id]]
  /\ UNCHANGED <<lock, store, index, dstore, clock, nremote, wpc, txn, fres,
                 last, disp, listeners, recv, recvOrdered, bus, rpc, rsnap>>

\* readTxn returns: the deferred d.lock.RUnlock()
ReadTxnEnd ==
  /\ OutsideDB
  /\ rpc = "open"
  /\ lock' = [lock EXCEPT !.r = @ \ {"reader"}]
  /\ rpc' = "idle"
  /\ rsnap' = EmptyStore
  /\ robs' = NoObs
  /\ UNCHANGED <<store, index, dstore, clock, nremote, wpc, txn, fres, last,
                 disp, listeners, recv, recvOrdered, bus>>

\* the consumer of listener n takes the next action from l.Channel()
Consume(n) ==
  /\ OutsideDB
  /\ n \in DOMAIN listeners
  /\ listeners[n].c # <<>>
  /\ LET m == Head(listeners[n].c)
     IN /\ recv' = [recv EXCEPT ![n] = [seq |-> m.seq, k |-> m.k]]
        /\ recvOrdered' = (recvOrdered /\ (\/ m.seq > recv[n].seq
                                           \/ m.seq = recv[n].seq /\ m.k > recv[n].k))
  /\ listeners' = [listeners EXCEPT ![n].c = Tail(@)]
  /\ UNCHANGED <<lock, store, index, dstore, clock, nremote, wpc, txn, fres,
                 last, disp, bus, rpc, rsnap, robs>>

\* the consumer calls receive on the empty channel and blocks
ConsumerPark(n) ==
  /\ OutsideDB
  /\ n \in DOMAIN listeners
  /\ listeners[n].open
  /\ ~listeners[n].parked
  /\ listeners[n].c = <<>>
  /\ listeners' = [listeners EXCEPT ![n].parked = TRUE]
  /\ UNCHANGED <<lock, store, index, dstore, clock, nremote, wpc, txn, fres,
                 last, disp, recv, recvOrdered, bus, rpc, rsnap, robs>>

\* listener.Close: scn.remove(sl) under scn.lock, then close(sl.c); the
\* consumer still drains what the channel buffered
ListenerClose(n) ==
  /\ OutsideDB
  /\ n \in DOMAIN listeners
  /\ listeners[n].open
  /\ listeners' = [listeners EXCEPT ![n].open = FALSE,
                                    ![n].parked = FALSE,
                                    ![n].raced = (disp.phase = "notify")]
  /\ UNCHANGED <<lock, store, index, dstore, clock, nremote, wpc, txn, fres,
                 last, disp, recv, recvOrdered, bus, rpc, rsnap, robs>>

(* ------------------------------------------------------------------------ *)
(* Replication server: PushRecord, PushLog, record pulls                    *)
(* ------------------------------------------------------------------------ *)
\* the sender's log and the receiver's own log of the thread
Logs == {"L1", "L2"}
Cids == 1..MaxRecords
\* record c of the sender's log: its cid is c, its prev is c - 1 (0: undefined)
PrevID(c) == c - 1
\* rec.Verify(logpk): every record here was signed with the key of log L1
Verify(c, lid) == lid = "L1"

CallIds == ({"direct", "gossip"} \X Cids \X {"L1"}) \cup ({"direct"} \X Cids \X {"L2"})
NoCallYet == [pc |-> "none", wasKnown |-> FALSE, res |-> "none", logres |-> "none"]

\* a receiver that holds key k of the thread, and with it its own log
InitNetWith(k) ==
  /\ slen = 0
  /\ xkey = k
  /\ xpub = IF xkey = "none" THEN {} ELSE {"L2"}
  /\ xhead = [l \in Logs |-> 0]
  /\ xknown = {}
  /\ xacc = {}
  /\ xcount = [c \in Cids |-> 0]
  /\ xqueue = FALSE
  /\ calls = [id \in CallIds |-> NoCallYet]

\* faulty PutRecord: every record is stored and becomes the head
PutRecordUnchecked(st, lid, c) ==
  [st EXCEPT !.err = FALSE,
             !.known = @ \cup {c},
             !.head = [@ EXCEPT ![lid] = c],
             !.count = [@ EXCEPT ![c] = @ + 1],
             !.acc = @ \cup {[cid |-> c, prev |-> PrevID(c),
                              head |-> st.head[lid]]}]

\* net.PutRecord under the thread semaphore: a known record is a no-op, a
\* record that does not chain to a defined head is a gap (and triggers a
\* back-fill), any other record is stored, delivered and becomes the head
PutRecord(st, lid, c) ==
  IF c \in st.known THEN [st EXCEPT !.err = FALSE]
  ELSE IF st.head[lid] # 0 /\ PrevID(c) # st.head[lid]
       THEN [st EXCEPT !.err = TRUE, !.queue = TRUE]
       ELSE [st EXCEPT !.err = FALSE,
                       !.known = @ \cup {c},
                       !.head = [@ EXCEPT ![lid] = c],
                       !.count = [@ EXCEPT ![c] = @ + 1],
                       !.acc = @ \cup {[cid |-> c, prev |-> PrevID(c),
                                        head |-> st.head[lid]]}]

RecvState == [err |-> FALSE, known |-> xknown, head |-> xhead, count |-> xcount,
              acc |-> xacc, queue |-> xqueue]

SetRecvState(st) ==
  /\ xknown' = st.known
  /\ xhead' = st.head
  /\ xcount' = st.count
  /\ xacc' = st.acc
  /\ xqueue' = st.queue

\* pushRecord: the record goes to the peer directly and to the thread topic
SenderAddRecord ==
  /\ OutsideNet
  /\ slen < MaxRecords
  /\ slen' = slen + 1
  /\ calls' = [calls EXCEPT ![<<"direct", slen + 1, "L1">>].pc = "sent",
                            ![<<"gossip", slen + 1, "L1">>].pc = "sent"]
  /\ UNCHANGED <<xkey, xpub, xhead, xknown, xacc, xcount, xqueue>>

\* a PushRecord request that names the receiver's log for a record of L1
PushOtherLog(c) ==
  /\ OutsideNet
  /\ c <= slen
  /\ calls[<<"direct", c, "L2">>].pc = "none"
  /\ calls' = [calls EXCEPT ![<<"direct", c, "L2">>].pc = "sent"]
  /\ UNCHANGED <<slen, xkey, xpub, xhead, xknown, xacc, xcount, xqueue>>

\* faulty PushRecord: a known record is verified and put like a new one
KnownReturnsNever(knownRecord) == FALSE

\* server.PushRecord: "else if knownRecord { return &pb.PushRecordReply{}, nil }"
KnownReturns(knownRecord) == knownRecord

\* server.PushRecord up to the PutRecord call: log not found, known record,
\* signature check
PushRecordCheck(id) ==
  /\ OutsideNet
  /\ calls[id].pc = "sent"
  /\ LET c == id[2]
         lid == id[3]
         r == IF lid \notin xpub THEN "NotFound"
              ELSE IF KnownReturns(c \in xknown) THEN "OK"
              ELSE IF ~Verify(c, lid) THEN "Unauthenticated"
              ELSE "put"
     IN calls' = [calls EXCEPT ![id] =
                    [@ EXCEPT !.pc = IF r = "put" THEN "put" ELSE "replied",
                              !.res = IF r = "put" THEN "none" ELSE r,
                              !.wasKnown = c \in xknown]]
  /\ UNCHANGED <<slen, xkey, xpub, xhead, xknown, xacc, xcount, xqueue>>

\* server.PushRecord: s.net.PutRecord and the reply
PushRecordPut(id) ==
  /\ OutsideNet
  /\ calls[id].pc = "put"
  /\ LET st == PutRecord(RecvState, id[3], id[2])
     IN /\ SetRecvState(st)
        /\ calls' = [calls EXCEPT ![id].pc = "replied",
                                  ![id].res = IF st.err THEN "Internal" ELSE "OK",
                                  ![id].wasKnown = id[2] \in xknown]
  /\ UNCHANGED <<slen, xkey, xpub>>

\* pushRecordToPeer, "case codes.NotFound": the missing log is sent
SendsLog(res) == res = "NotFound"

\* the PushLog request of pushRecordToPeer: Body{ThreadID, Log}, no keys
FollowUpKeys == [sk |-> FALSE, rk |-> FALSE]

\* the reply reaches the caller: pubsubHandler only logs an error, and
\* pushRecordToPeer answers NotFound with a PushLog for the log
PushRecordReply(id) ==
  /\ OutsideNet
  /\ calls[id].pc = "replied"
  /\ calls' = [calls EXCEPT ![id].pc =
                 IF id[1] = "direct" /\ id[3] = "L1" /\ SendsLog(calls[id].res)
                 THEN "pushlog" ELSE "done"]
  /\ UNCHANGED <<slen, xkey, xpub, xhead, xknown, xacc, xcount, xqueue>>

\* server.PushLog, "Pick up missing keys": the thread key afterwards, or
\* NotFound when the thread is unknown and the request has no service key
PushLogKeys(key, req) ==
  IF key = "none"
  THEN IF req.sk THEN [err |-> FALSE, key |-> "service"]
       ELSE [err |-> TRUE, key |-> key]
  ELSE IF key = "service" /\ req.rk THEN [err |-> FALSE, key |-> "full"]
  ELSE [err |-> FALSE, key |-> key]

\* server.PushLog: keys, createExternalLogsIfNotExist (a new log has no
\* head), and a scheduled GetRecords call to the pushing peer
PushLog(id) ==
  /\ OutsideNet
  /\ calls[id].pc = "pushlog"
  /\ LET k == PushLogKeys(xkey, FollowUpKeys)
     IN /\ xkey' = k.key
        /\ xpub' = IF k.err THEN xpub ELSE xpub \cup {id[3]}
        /\ xqueue' = IF k.err THEN xqueue ELSE TRUE
        /\ calls' = [calls EXCEPT ![id].pc = "done",
                                  ![id].logres = IF k.err THEN "NotFound" ELSE "OK"]
  /\ UNCHANGED <<slen, xhead, xknown, xacc, xcount>>

\* server.PushLog for a request that carries the thread's keys (the logs
\* sent by AddReplicator and by a peer that shares the thread)
PushLogWithKeys(lid, req) ==
  /\ UNCHANGED <<dbvars, replvars, queuevars, edgevars, uniqvars, mgrvars, latevars>>
  /\ LET k == PushLogKeys(xkey, req)
     IN /\ xkey' = k.key
        /\ xpub' = IF k.err THEN xpub ELSE xpub \cup {lid}
        /\ xqueue' = IF k.err THEN xqueue ELSE TRUE
        /\ xlast' = [called |-> TRUE, before |-> xkey, req |-> req,
                     err |-> k.err, after |-> k.key]
  /\ UNCHANGED <<slen, xhead, xknown, xacc, xcount, calls>>
  /\ UNCHANGED <<astored, alogs, alast>>

RECURSIVE PutRecords(_, _, _, _)
\* putRecords: the pulled chain segment, oldest first
PutRecords(st, lid, c, to) ==
  IF c > to THEN st ELSE PutRecords(PutRecord(st, lid, c), lid, c + 1, to)

\* updateRecordsFromPeer: the scheduled call runs; the sender returns the
\* records of each log the receiver holds that are newer than its head
UpdateRecordsFromPeer ==
  /\ OutsideNet
  /\ xqueue
  /\ LET st == IF "L1" \in xpub
               THEN PutRecords([RecvState EXCEPT !.queue = FALSE], "L1",
                               xhead["L1"] + 1, slen)
               ELSE [RecvState EXCEPT !.queue = FALSE]
     IN SetRecvState(st)
  /\ UNCHANGED <<slen, xkey, xpub, calls>>

\* a receiver that does not hold the thread
InitNet == InitNetWith("none")

NextNet ==
  \/ SenderAddRecord
  \/ \E c \in Cids : PushOtherLog(c)
  \/ \E id \in CallIds : PushRecordCheck(id)
  \/ \E id \in CallIds : PushRecordPut(id)
  \/ \E id \in CallIds : PushRecordReply(id)
  \/ \E id \in CallIds : PushLog(id)
  \/ UpdateRecordsFromPeer

\* a peer is sent the sender's logs with keys, and then pulls their records
NextPushLog ==
  \/ SenderAddRecord
  \/ UpdateRecordsFromPeer
  \/ \E lid \in Logs, req \in [sk : BOOLEAN, rk : BOOLEAN] : PushLogWithKeys(lid, req)

(* ------------------------------------------------------------------------ *)
(* Two peers replicating one thread                                         *)
(* ------------------------------------------------------------------------ *)
Peers == {"p1", "p2"}

InitRepl ==
  /\ pstore = [p \in Peers |-> EmptyStore]
  /\ pindex = [p \in Peers |-> EmptyIndex]
  /\ plog = [p \in Peers |-> <<>>]
  /\ papplied = [p \in Peers |-> [q \in Peers |-> 0]]

\* the single actions Txn.Create, Txn.Save and Txn.Delete buffer on store st
TxnActions(st) ==
  {Action(ActionCreate, i, Nil, b) : i \in {j \in IDs : st[j] = Nil}, b \in Bodies}
  \cup {Action(ActionSave, i, st[i], b) : i \in {j \in IDs : st[j] # Nil},
                                         b \in Bodies}
  \cup {Action(ActionDelete, i, Nil, Nil) : i \in {j \in IDs : st[j] # Nil}}

\* faulty handler: own records are dispatched like any other
IgnoresNoRecord(recLog, lid) == FALSE

\* HandleNetRecord: "if rec.LogID() == lid { return nil }"
IgnoresRecord(recLog, lid) == recLog = lid

\* writeTxn at peer p with one buffered action: Commit dispatches the events
\* to the own reducer and the node goes to the thread as the next own record
PeerWriteTxn(p, a) ==
  /\ OutsideRepl
  /\ Len(plog[p]) < MaxCommits
  /\ a \in TxnActions(pstore[p])
  /\ LET events == CodecCreate(<<a>>, Len(plog[p]) + 1)
         r == CodecReduce(pstore[p], pindex[p], events)
     IN /\ pstore' = [pstore EXCEPT ![p] = r.store]
        /\ pindex' = [pindex EXCEPT ![p] = r.index]
        /\ plog' = [plog EXCEPT ![p] = IF r.err THEN @ ELSE Append(@, events)]
  /\ UNCHANGED papplied

\* HandleNetRecord at peer p for the next record of log q: an own record is
\* ignored, any other is dispatched to the reducer (an error leaves the
\* datastore as it was)
PeerHandleNetRecord(p, q) ==
  /\ OutsideRepl
  /\ papplied[p][q] < Len(plog[q])
  /\ papplied' = [papplied EXCEPT ![p][q] = @ + 1]
  /\ IF IgnoresRecord(q, p)
     THEN UNCHANGED <<pstore, pindex>>
     ELSE LET r == CodecReduce(pstore[p], pindex[p], plog[q][papplied[p][q] + 1])
          IN /\ pstore' = [pstore EXCEPT ![p] = r.store]
             /\ pindex' = [pindex EXCEPT ![p] = r.index]
  /\ UNCHANGED plog

NextRepl ==
  \/ \E p \in Peers, t \in ActionTypes, i \in IDs, b \in Bodies \cup {Nil} :
       PeerWriteTxn(p, Action(t, i, IF t = ActionSave THEN pstore[p][i] ELSE Nil, b))
  \/ \E p \in Peers, q \in Peers : PeerHandleNetRecord(p, q)

(* ------------------------------------------------------------------------ *)
(* Call queues (GetLogs, GetRecords) of a peer                              *)
(* ------------------------------------------------------------------------ *)
\* the peer that calls exchangeEdges and the peer that answers
Sides == {"req", "resp"}
Queues == {"GetLogs", "GetRecords"}
Tids == 1..MaxThreads
QueueTids == 1..MaxQueueThreads
NoPriority == 0
callPriorityLow == 1
callPriorityHigh == 2
Priorities == {callPriorityLow, callPriorityHigh}

InitQueue ==
  /\ qpend = [s \in Sides |-> [q \in Queues |-> [t \in Tids |-> NoPriority]]]
  /\ qwait = [q \in Queues |-> [t \in Tids |-> 0]]
  /\ qrun = [q \in Queues |-> [t \in Tids |-> 0]]

\* faulty queue: a call starts whether or not one is executing
SlotFreeAlways(n) == TRUE

\* the slot of a (peer, thread) pair is free when no call for it executes
SlotFree(n) == n = 0

\* Schedule on a pair whose pending call has priority pend (NoPriority: none
\* pending): a higher priority supersedes, anything else is dropped
QueueSchedule(pend, priority) ==
  IF priority > pend THEN [ok |-> TRUE, pend |-> priority]
  ELSE [ok |-> FALSE, pend |-> pend]

Schedule(q, t, priority) ==
  /\ OutsideQueue
  /\ qpend' = [qpend EXCEPT !["req"][q][t] = QueueSchedule(@, priority).pend]
  /\ UNCHANGED <<qwait, qrun>>

\* the queue's poller takes the pending call of a pair and executes it
PollQueue(q, t) ==
  /\ OutsideQueue
  /\ qpend["req"][q][t] # NoPriority
  /\ SlotFree(qrun[q][t])
  /\ qpend' = [qpend EXCEPT !["req"][q][t] = NoPriority]
  /\ qrun' = [qrun EXCEPT ![q][t] = @ + 1]
  /\ UNCHANGED qwait

\* a goroutine enters Call for a pair
CallEnter(q, t) ==
  /\ OutsideQueue
  /\ qwait[q][t] < MaxCallers
  /\ qwait' = [qwait EXCEPT ![q][t] = @ + 1]
  /\ UNCHANGED <<qpend, qrun>>

\* Call executes its function once the slot of the pair is free
CallRun(q, t) ==
  /\ OutsideQueue
  /\ qwait[q][t] > 0
  /\ SlotFree(qrun[q][t])
  /\ qwait' = [qwait EXCEPT ![q][t] = @ - 1]
  /\ qrun' = [qrun EXCEPT ![q][t] = @ + 1]
  /\ UNCHANGED qpend

\* an executing call returns: completion frees the slot
CallDone(q, t) ==
  /\ OutsideQueue
  /\ qrun[q][t] > 0
  /\ qrun' = [qrun EXCEPT ![q][t] = @ - 1]
  /\ UNCHANGED <<qpend, qwait>>

NextQueue ==
  \/ \E q \in Queues, t \in QueueTids, p \in Priorities : Schedule(q, t, p)
  \/ \E q \in Queues, t \in QueueTids : PollQueue(q, t)
  \/ \E q \in Queues, t \in QueueTids : CallEnter(q, t)
  \/ \E q \in Queues, t \in QueueTids : CallRun(q, t)
  \/ \E q \in Queues, t \in QueueTids : CallDone(q, t)

(* ------------------------------------------------------------------------ *)
(* Edge exchange between two peers                                          *)
(* ------------------------------------------------------------------------ *)
\* the edges of a thread at a peer: a = 0 when the peer has no addresses of
\* the thread (it does not know it), h = 0 when it has no heads of it
NoEdges == [a |-> 0, h |-> 0]
\* (the further values of the address edge are paired with the first heads
\* edge only)
ThreadEdges ==
  {e \in [a : 0..MaxEdge, h : 0..MaxEdge] :
     (e.a = 0 => e.h = 0) /\ (e.a > 1 => e.h = 1)}
errNoAddrsEdge == "errNoAddrsEdge"
errNoHeadsEdge == "errNoHeadsEdge"
\* the tids argument of exchangeEdges
TidsArg == [i \in 1..MaxThreads |-> i]

\* server.localEdges: the error it returns for the stored edges e
localEdges(e) ==
  IF e.a = 0 THEN errNoAddrsEdge
  ELSE IF e.h = 0 THEN errNoHeadsEdge
  ELSE "nil"

InitEdgesWith(le) ==
  /\ ledge = le
  /\ epc = "idle"
  /\ ereq = <<>>
  /\ ereply = <<>>
  /\ esched = {}
  /\ echanges = 0

\* two peers that know no thread
InitEdges == InitEdgesWith([s \in Sides |-> [t \in Tids |-> NoEdges]])

\* Schedule on the queue state pend of one peer
ScheduleIn(pend, q, t, priority) ==
  [pend EXCEPT ![q][t] = QueueSchedule(@, priority).pend]

RECURSIVE RequestEntries(_, _)
\* exchangeEdges, "fill local edges": an entry for every thread of tids
\* whose local edges can be computed, from position i on
RequestEntries(le, i) ==
  IF i > Len(TidsArg) THEN <<>>
  ELSE LET tid == TidsArg[i]
       IN (IF localEdges(le[tid]) = "nil"
           THEN <<[tid |-> tid, a |-> le[tid].a, h |-> le[tid].h]>>
           ELSE <<>>) \o RequestEntries(le, i + 1)

\* exchangeEdges up to the request; nothing is sent for an empty body
ExchangeSend ==
  /\ OutsideEdges
  /\ epc = "idle"
  /\ ereq' = RequestEntries(ledge["req"], 1)
  /\ epc' = IF ereq' = <<>> THEN "done" ELSE "sent"
  /\ UNCHANGED <<ledge, ereply, esched, echanges, qpend>>

\* another goroutine of the requester changes the edges of a thread (logs or
\* records arrive) between the request and the second retrieval of the local
\* edges
EdgesChange(t, e) ==
  /\ OutsideEdges
  /\ epc = "replied"
  /\ echanges < MaxChanges
  /\ e # ledge["req"][t]
  /\ ledge' = [ledge EXCEPT !["req"][t] = e]
  /\ echanges' = echanges + 1
  /\ UNCHANGED <<epc, ereq, ereply, esched, qpend>>

\* faulty responder: a thread without edges always gets a records pull
EdgesMissingPullsRecords(err) ==
  [q |-> "GetRecords", priority |-> callPriorityLow]

\* server.ExchangeEdges, cases errNoAddrsEdge and errNoHeadsEdge: the call
\* the responder schedules to the requester
EdgesMissing(err) ==
  IF err = errNoAddrsEdge
  THEN [q |-> "GetLogs", priority |-> callPriorityHigh]
  ELSE [q |-> "GetRecords", priority |-> callPriorityLow]

\* server.ExchangeEdges, one request entry: the responder's queues and the
\* reply edge
EdgesEntry(pend, entry, local) ==
  LET err == localEdges(local)
  IN IF err = "nil"
     THEN LET p1 == IF local.a # entry.a
                    THEN ScheduleIn(pend, "GetLogs", entry.tid, callPriorityLow)
                    ELSE pend
              p2 == IF local.h # entry.h
                    THEN ScheduleIn(p1, "GetRecords", entry.tid, callPriorityLow)
                    ELSE p1
          IN [pend |-> p2, edge |-> [exists |-> TRUE, a |-> local.a, h |-> local.h]]
     ELSE LET m == EdgesMissing(err)
          IN [pend |-> ScheduleIn(pend, m.q, entry.tid, m.priority),
              edge |-> [exists |-> FALSE, a |-> 0, h |-> 0]]

RECURSIVE EdgesEntries(_, _, _, _)
\* server.ExchangeEdges, the loop over req.Body.Threads from entry i on
EdgesEntries(pend, req, le, i) ==
  IF i > Len(req) THEN [pend |-> pend, reply |-> <<>>]
  ELSE LET r == EdgesEntry(pend, req[i], le[req[i].tid])
           rest == EdgesEntries(r.pend, req, le, i + 1)
       IN [pend |-> rest.pend, reply |-> <<r.edge>> \o rest.reply]

\* server.ExchangeEdges at the responder
ExchangeEdges ==
  /\ OutsideEdges
  /\ epc = "sent"
  /\ LET r == EdgesEntries(qpend["resp"], ereq, ledge["resp"], 1)
     IN /\ qpend' = [qpend EXCEPT !["resp"] = r.pend]
        /\ ereply' = r.reply
  /\ epc' = "replied"
  /\ UNCHANGED <<ledge, ereq, esched, echanges>>

RECURSIVE ScheduleAll(_, _, _)
\* exchangeEdges, case codes.Unimplemented: a records pull for every tid
ScheduleAll(pend, i, q) ==
  IF i > Len(TidsArg) THEN pend
  ELSE ScheduleAll(ScheduleIn(pend, q, TidsArg[i], callPriorityLow), i + 1, q)

\* exchangeEdges when the call fails: Unimplemented falls back to direct
\* record pulling, Unavailable skips the exchange
ExchangeFails(code) ==
  /\ OutsideEdges
  /\ epc = "sent"
  /\ epc' = "done"
  /\ IF code = "Unimplemented"
     THEN /\ qpend' = [qpend EXCEPT !["req"] = ScheduleAll(@, 1, "GetRecords")]
          /\ esched' = esched \cup {<<"GetRecords", TidsArg[i]>> : i \in DOMAIN TidsArg}
     ELSE UNCHANGED <<qpend, esched>>
  /\ UNCHANGED <<ledge, ereq, ereply, echanges>>

RECURSIVE ReplyEdges(_, _, _, _)
\* exchangeEdges, the loop over reply.GetEdges() from edge i on: the thread is
\* tids[i], its local edges are read again, and a differing edge schedules
\* the update; st holds the requester's queues and the Schedule calls made
ReplyEdges(st, reply, le, i) ==
  IF i > Len(reply) THEN st
  ELSE LET e == reply[i]
           tid == TidsArg[i]
           local == le[tid]
           s1 == IF e.a # local.a
                 THEN [pend |-> ScheduleIn(st.pend, "GetLogs", tid, callPriorityLow),
                       sched |-> st.sched \cup {<<"GetLogs", tid>>}]
                 ELSE st
           s2 == IF e.h # local.h
                 THEN [pend |-> ScheduleIn(s1.pend, "GetRecords", tid, callPriorityLow),
                       sched |-> s1.sched \cup {<<"GetRecords", tid>>}]
                 ELSE s1
       IN IF ~e.exists \/ localEdges(local) # "nil"
          THEN ReplyEdges(st, reply, le, i + 1)
          ELSE ReplyEdges(s2, reply, le, i + 1)

\* exchangeEdges after the reply arrived
ExchangeReply ==
  /\ OutsideEdges
  /\ epc = "replied"
  /\ LET st == ReplyEdges([pend |-> qpend["req"], sched |-> esched], ereply,
                          ledge["req"], 1)
     IN /\ qpend' = [qpend EXCEPT !["req"] = st.pend]
        /\ esched' = st.sched
  /\ epc' = "done"
  /\ UNCHANGED <<ledge, ereq, ereply, echanges>>

NextEdges ==
  \/ ExchangeSend
  \/ \E t \in Tids, e \in ThreadEdges : EdgesChange(t, e)
  \/ ExchangeEdges
  \/ \E code \in {"Unimplemented", "Unavailable"} : ExchangeFails(code)
  \/ ExchangeReply

(* ------------------------------------------------------------------------ *)
(* A collection with a unique secondary index                               *)
(* ------------------------------------------------------------------------ *)
\* the indexed path; the JSON of an instance is its value at that path
emailPath == "email"
idIndex == [Path |-> idFieldName, Unique |-> TRUE]
emailIndex == [Path |-> emailPath, Unique |-> TRUE]
\* the orders in which "for path, index := range c.indexes" may visit ixs
IndexOrders(ixs) ==
  {o \in UNION {[1..n -> ixs] : n \in {Cardinality(ixs)}} :
     \A i, j \in DOMAIN o : i # j => o[i] # o[j]}

RECURSIVE indexAllOf(_, _, _, _, _, _)
\* the loop of indexAdd and indexDelete over the indexes in order ixs
indexAllOf(ixs, idx, n, key, input, delete) ==
  IF n > Len(ixs) THEN [err |-> FALSE, index |-> idx]
  ELSE LET r == indexUpdate(idx, ixs[n], key, input, delete)
       IN IF r.err THEN r ELSE indexAllOf(ixs, r.index, n + 1, key, input, delete)

\* defaultIndexFunc for a collection whose indexes are visited in the orders
\* od (indexDelete) and oa (indexAdd)
defaultIndexFuncOf(od, oa, idx, key, oldData, newData) ==
  LET d == indexAllOf(od, idx, 1, key, oldData, TRUE)
  IN IF d.err THEN d
     ELSE IF newData = Nil THEN d
     ELSE indexAllOf(oa, d.index, 1, key, newData, FALSE)

\* no Find was made since the collection last changed
NoFind == [op |-> "none", q |-> Nil, useIndex |-> FALSE, res |-> {},
           err |-> "nil"]

InitUniqueWith(ixs) ==
  /\ ustore = [i \in IDs |-> Nil]
  /\ uindex = [k \in {idFieldName, emailPath} \X (IDs \cup Bodies) |-> <<>>]
  /\ uindexes = ixs
  /\ usince = (emailIndex \in ixs)
  /\ ulast = [op |-> "none", id |-> Nil, err |-> "nil", unique |-> FALSE,
              clash |-> FALSE]
  /\ ufind = NoFind

\* a collection created without secondary index
InitUnique == InitUniqueWith({idIndex})

\* Collection.Create/Save/Delete of one instance: the check of the Txn call,
\* then Commit, whose reducer applies the event and maintains the indexes in
\* one datastore transaction; new = Nil deletes
UniqueApply(op, id, new, txnErr) ==
  /\ OutsideUnique
  /\ \E od \in IndexOrders(uindexes), oa \in IndexOrders(uindexes) :
       LET old == ustore[id]
           ir == defaultIndexFuncOf(od, oa, uindex, id, old, new)
           err == IF txnErr # "nil" THEN txnErr
                  ELSE IF ir.err THEN "ErrUniqueExists" ELSE "nil"
       IN /\ ustore' = IF err = "nil" THEN [ustore EXCEPT ![id] = new] ELSE ustore
          /\ uindex' = IF err = "nil" THEN ir.index ELSE uindex
          /\ ulast' = [op |-> op, id |-> id, err |-> err,
                       unique |-> emailIndex \in uindexes,
                       clash |-> \E j \in IDs \ {id} :
                                   ustore[j] # Nil /\ ustore[j] = new]
  /\ ufind' = NoFind
  /\ UNCHANGED <<uindexes, usince>>

UniqueCreate(id, b) ==
  UniqueApply(ActionCreate, id, b,
              IF ustore[id] # Nil THEN "errCantCreateExistingInstance" ELSE "nil")

UniqueSave(id, b) ==
  UniqueApply(ActionSave, id, b,
              IF ustore[id] = Nil THEN "errCantSaveNonExistentInstance" ELSE "nil")

UniqueDelete(id) ==
  UniqueApply(ActionDelete, id, Nil,
              IF ustore[id] = Nil THEN "ErrNotFound" ELSE "nil")

\* UpdateCollection: the index on the secondary path is added (with no entry
\* built for the stored instances) or dropped (its entries stay)
UpdateCollection(withIndex) ==
  /\ OutsideUnique
  /\ withIndex # (emailIndex \in uindexes)
  /\ uindexes' = IF withIndex THEN {idIndex, emailIndex} ELSE {idIndex}
  /\ usince' = (withIndex /\ \A i \in IDs : ustore[i] = Nil)
  /\ ufind' = NoFind
  /\ UNCHANGED <<ustore, uindex, ulast>>

\* a criterion on the indexed path: operation and value
Criteria == {"Eq", "Ne"} \X Bodies

\* the values at the path, in the order the datastore keeps the entries
ValuesInOrder == <<"a", "b">>

\* Criterion.match on the value an instance has at the path
CriterionMatch(c, v) ==
  IF c[1] = "Eq" THEN v = c[2] ELSE v # c[2]

\* a query: the criteria joined by And, and the alternatives joined by Or
Queries ==
  {[ands |-> A, ors |-> O] :
     A \in {{}} \cup {{c} : c \in Criteria},
     O \in {{}, {<<"Eq", "a">>}}}

\* Query.match: every And criterion holds, or else some alternative does
QueryMatch(q, v) ==
  \/ \A c \in q.ands : CriterionMatch(c, v)
  \/ \E c \in q.ors : CriterionMatch(c, v)

\* iterator.NextSync without index: every stored instance that matches
FullScan(q, st) == {i \in IDs : st[i] # Nil /\ QueryMatch(q, st[i])}

\* nextKeys of newIterator: the index entries of the path in key order, the
\* query matched against the indexed value alone, the keys of every matching
\* entry; ErrIndexNotFound when the path has no entry at all
RECURSIVE IndexKeysFrom(_, _, _, _)
IndexKeysFrom(q, idx, path, n) ==
  IF n > Len(ValuesInOrder) THEN <<>>
  ELSE LET v == ValuesInOrder[n]
           here == IF idx[<<path, v>>] # <<>> /\ QueryMatch(q, v)
                   THEN idx[<<path, v>>] ELSE <<>>
       IN here \o IndexKeysFrom(q, idx, path, n + 1)

\* iterator.NextSync with an index, called until it returns false: the
\* instances of the keys up to the first key that txn.Get does not find;
\* what is fetched is returned without being matched again
RECURSIVE FetchKeys(_, _, _)
FetchKeys(keys, st, n) ==
  IF n > Len(keys) THEN [res |-> {}, err |-> "nil"]
  ELSE IF st[keys[n]] = Nil THEN [res |-> {}, err |-> "ErrNotFound"]
  ELSE LET r == FetchKeys(keys, st, n + 1)
       IN [res |-> {keys[n]} \cup r.res, err |-> r.err]

IndexScan(q, idx, path, st) ==
  IF \A v \in Bodies : idx[<<path, v>>] = <<>>
  THEN [res |-> {}, err |-> "ErrIndexNotFound"]
  ELSE FetchKeys(IndexKeysFrom(q, idx, path, 1), st, 1)

\* Collection.Find(q) in a read transaction: the index of the secondary path
\* is scanned when the query names it and the path is indexed, the whole
\* collection otherwise
Find(q, useIndex) ==
  /\ OutsideUnique
  /\ LET r == IF useIndex /\ emailIndex \in uindexes
              THEN IndexScan(q, uindex, emailPath, ustore)
              ELSE [res |-> FullScan(q, ustore), err |-> "nil"]
     IN ufind' = [op |-> "Find", q |-> q, useIndex |-> useIndex,
                  res |-> r.res, err |-> r.err]
  /\ UNCHANGED <<ustore, uindex, uindexes, usince, ulast>>

NextUnique ==
  \/ \E i \in IDs, b \in Bodies : UniqueCreate(i, b)
  \/ \E i \in IDs, b \in Bodies : UniqueSave(i, b)
  \/ \E i \in IDs : UniqueDelete(i)
  \/ \E w \in BOOLEAN : UpdateCollection(w)

(* ------------------------------------------------------------------------ *)
(* Manager: one DB per thread id, hydration                                 *)
(* ------------------------------------------------------------------------ *)
MaxRestarts == 1
ThreadIDs == {"t1", "t2"}
CollNames == {"Person"}
MgrCallers == {"c1", "c2"}
NoMgrCall == [pc |-> "idle", id |-> Nil, colls |-> {}, err |-> "none"]

\* NewManager on an empty datastore
InitMgr ==
  /\ mopen = TRUE
  /\ mdbs = [t \in ThreadIDs |-> FALSE]
  /\ mlive = [t \in ThreadIDs |-> 0]
  /\ mnet = {}
  /\ mds = [t \in ThreadIDs |-> {}]
  /\ mcolls = [t \in ThreadIDs |-> {}]
  /\ mcall = [c \in MgrCallers |-> NoMgrCall]
  /\ mok = {}
  /\ mbefore = [t \in ThreadIDs |-> {}]
  /\ mrestarts = 0

\* faulty network: a thread that is already held is added once more
ThreadIsNewAlways(threads, id) == TRUE

\* CreateThread and AddThread of the network refuse a thread the log store
\* already holds (ErrThreadExists)
ThreadIsNew(threads, id) == id \notin threads

\* Manager.NewDB / NewDBFromAddr up to the network call: "if _, ok :=
\* m.dbs[id]; ok { return already exists }"
NewDBCheck(c, id, colls) ==
  /\ OutsideMgr
  /\ mopen
  /\ mcall[c].pc = "idle"
  /\ mcall' = [mcall EXCEPT ![c] =
                 IF mdbs[id]
                 THEN [pc |-> "idle", id |-> id, colls |-> colls,
                       err |-> "already exists"]
                 ELSE [pc |-> "net", id |-> id, colls |-> colls,
                       err |-> "none"]]
  /\ UNCHANGED <<mopen, mdbs, mlive, mnet, mds, mcolls, mok, mbefore,
                 mrestarts>>

\* m.network.CreateThread / m.network.AddThread
NewDBNetwork(c) ==
  /\ OutsideMgr
  /\ mcall[c].pc = "net"
  /\ IF ThreadIsNew(mnet, mcall[c].id)
     THEN /\ mnet' = mnet \cup {mcall[c].id}
          /\ mcall' = [mcall EXCEPT ![c].pc = "newDB"]
     ELSE /\ mcall' = [mcall EXCEPT ![c].pc = "idle",
                                    ![c].err = "ErrThreadExists"]
          /\ UNCHANGED mnet
  /\ UNCHANGED <<mopen, mdbs, mlive, mds, mcolls, mok, mbefore, mrestarts>>

\* newDB: reCreateCollections loads the stored schemas, NewCollection
\* registers and saves each collection of the options (and fails on one that
\* was loaded); then m.dbs[id] = db
NewDBStore(c) ==
  /\ OutsideMgr
  /\ mcall[c].pc = "newDB"
  /\ LET id == mcall[c].id
         loaded == mds[id]
     IN IF mcall[c].colls \cap loaded # {}
        THEN /\ mcall' = [mcall EXCEPT ![c].pc = "idle",
                            ![c].err = "ErrCollectionAlreadyRegistered"]
             /\ UNCHANGED <<mdbs, mlive, mds, mcolls, mok>>
        ELSE /\ mlive' = [mlive EXCEPT ![id] = @ + 1]
             /\ mds' = [mds EXCEPT ![id] = @ \cup mcall[c].colls]
             /\ mcolls' = [mcolls EXCEPT ![id] = loaded \cup mcall[c].colls]
             /\ mdbs' = [mdbs EXCEPT ![id] = TRUE]
             /\ mok' = mok \cup {id}
             /\ mcall' = [mcall EXCEPT ![c].pc = "idle", ![c].err = "nil"]
  /\ UNCHANGED <<mopen, mnet, mbefore, mrestarts>>

\* DB.NewCollection on the DB GetDB returns: the schema is saved under the
\* prefix of the DB
MgrNewCollection(id, name) ==
  /\ OutsideMgr
  /\ mopen
  /\ mdbs[id]
  /\ name \notin mcolls[id]
  /\ mcolls' = [mcolls EXCEPT ![id] = @ \cup {name}]
  /\ mds' = [mds EXCEPT ![id] = @ \cup {name}]
  /\ UNCHANGED <<mopen, mdbs, mlive, mnet, mcall, mok, mbefore, mrestarts>>

\* Manager.Close: every DB of the map is closed
ManagerClose ==
  /\ OutsideMgr
  /\ mopen
  /\ mrestarts < MaxRestarts
  /\ \A c \in MgrCallers : mcall[c].pc = "idle"
  /\ mopen' = FALSE
  /\ mrestarts' = mrestarts + 1
  /\ mbefore' = mcolls
  /\ mdbs' = [t \in ThreadIDs |-> FALSE]
  /\ mlive' = [t \in ThreadIDs |-> 0]
  /\ mcolls' = [t \in ThreadIDs |-> {}]
  /\ UNCHANGED <<mnet, mds, mcall, mok>>

\* NewManager: a DB for every thread id that has a key under /manager
NewManager ==
  /\ OutsideMgr
  /\ ~mopen
  /\ mopen' = TRUE
  /\ mdbs' = [t \in ThreadIDs |-> mds[t] # {}]
  /\ mlive' = [t \in ThreadIDs |-> IF mds[t] # {} THEN 1 ELSE 0]
  /\ mcolls' = mds
  /\ UNCHANGED <<mnet, mds, mcall, mok, mbefore, mrestarts>>

NextMgr ==
  \/ \E c \in MgrCallers, id \in ThreadIDs, colls \in SUBSET CollNames :
       NewDBCheck(c, id, colls)
  \/ \E c \in MgrCallers : NewDBNetwork(c)
  \/ \E c \in MgrCallers : NewDBStore(c)
  \/ \E id \in ThreadIDs, name \in CollNames : MgrNewCollection(id, name)
  \/ ManagerClose
  \/ NewManager

(* ------------------------------------------------------------------------ *)
(* Service key check of GetLogs and GetRecords                              *)
(* ------------------------------------------------------------------------ *)
KeyLen == 2
\* keys as byte strings; a request may carry a key of any length, or none
NoKey == <<>>
ServiceKeys == [1..KeyLen -> 0..1]
RequestKeys == {NoKey} \cup UNION {[1..n -> 0..1] : n \in 1..KeyLen}
AuthThreads == {"t1", "t2"}
NoPushLog == [called |-> FALSE, before |-> "none", req |-> [sk |-> FALSE, rk |-> FALSE],
              err |-> FALSE, after |-> "none"]
NoAuthCall == [op |-> "none", tid |-> Nil, key |-> NoKey, storeErr |-> FALSE,
               code |-> "none", logs |-> 0, records |-> 0]

InitAuthWith(stored, logs) ==
  /\ astored = stored
  /\ alogs = logs
  /\ alast = NoAuthCall
  /\ xlast = NoPushLog

\* a peer that holds one thread with a log, and does not know the other
InitAuth ==
  InitAuthWith([t \in AuthThreads |-> IF t = "t1" THEN [i \in 1..KeyLen |-> 0]
                                                 ELSE NoKey],
               [t \in AuthThreads |-> IF t = "t1" THEN 1 ELSE 0])

\* faulty comparison: keys of the same length are taken as equal
BytesEqualLength(a, b) == Len(a) = Len(b)

\* bytes.Equal
BytesEqual(a, b) == Len(a) = Len(b) /\ \A i \in 1..Len(a) : a[i] = b[i]

\* server.checkServiceKey: the gRPC code it fails with, or OK
checkServiceKey(sk, k, storeErr) ==
  IF k = NoKey THEN "Unauthenticated"
  ELSE IF storeErr THEN "Internal"
  ELSE IF sk = NoKey THEN "NotFound"
  ELSE IF ~BytesEqual(k, sk) THEN "Unauthenticated"
  ELSE "OK"

\* server.GetLogs: the logs of the thread after the key check
GetLogs(tid, k, storeErr) ==
  /\ OutsideAuth
  /\ LET code == checkServiceKey(astored[tid], k, storeErr)
     IN alast' = [op |-> "GetLogs", tid |-> tid, key |-> k,
                  storeErr |-> storeErr, code |-> code,
                  logs |-> IF code = "OK" THEN alogs[tid] ELSE 0,
                  records |-> 0]
  /\ UNCHANGED <<astored, alogs, xlast>>

\* server.GetRecords: nothing when the requested offsets are the heads,
\* else the records of every log after the key check
GetRecords(tid, k, storeErr, changed) ==
  /\ OutsideAuth
  /\ LET code == checkServiceKey(astored[tid], k, storeErr)
     IN alast' = [op |-> "GetRecords", tid |-> tid, key |-> k,
                  storeErr |-> storeErr, code |-> code,
                  logs |-> 0,
                  records |-> IF code = "OK" /\ changed THEN alogs[tid]
                              ELSE 0]
  /\ UNCHANGED <<astored, alogs, xlast>>

NextAuth ==
  \/ \E t \in AuthThreads, k \in RequestKeys, e \in BOOLEAN : GetLogs(t, k, e)
  \/ \E t \in AuthThreads, k \in RequestKeys, e \in BOOLEAN, ch \in BOOLEAN :
       GetRecords(t, k, e, ch)

(* ------------------------------------------------------------------------ *)
(* DB.Close and the adapter's background tasks                              *)
(* ------------------------------------------------------------------------ *)
MaxInbound == 2

\* a started adapter: both tasks wait in their select
InitClose ==
  /\ klock = "free"
  /\ kclose = "idle"
  /\ kchan = FALSE
  /\ kt2s = "select"
  /\ ks2t = "select"
  /\ ksub = 0
  /\ kloc = 0
  /\ kdisp = 0
  /\ kadded = 0

\* the net delivers a record of another log to the subscription
RemoteRecord ==
  /\ OutsideClose
  /\ ksub + kdisp < MaxInbound
  /\ kt2s \in {"select", "done"}
  /\ ksub' = ksub + 1
  /\ UNCHANGED <<klock, kclose, kchan, kt2s, ks2t, kloc, kdisp, kadded>>

\* a local write transaction commits under the DB lock and publishes its
\* event node to the local event listener
LocalCommit ==
  /\ OutsideClose
  /\ klock = "free"
  /\ kclose = "idle"
  /\ kloc + kadded < MaxInbound
  /\ ks2t \in {"select", "done"}
  /\ kloc' = kloc + 1
  /\ UNCHANGED <<klock, kclose, kchan, kt2s, ks2t, ksub, kdisp, kadded>>

\* threadToStore, "case rec, ok := <-sub.Channel()": a select with several
\* ready cases takes any of them
ThreadToStoreReceive ==
  /\ OutsideClose
  /\ kt2s = "select"
  /\ ksub > 0
  /\ ksub' = ksub - 1
  /\ kt2s' = "handling"
  /\ UNCHANGED <<klock, kclose, kchan, ks2t, kloc, kdisp, kadded>>

\* threadToStore: the event and its body are fetched and decoded
ThreadToStoreFetch ==
  /\ OutsideClose
  /\ kt2s = "handling"
  /\ kt2s' = "wantlock"
  /\ UNCHANGED <<klock, kclose, kchan, ks2t, ksub, kloc, kdisp, kadded>>

\* DB.dispatch: s.lock.Lock()
ThreadToStoreLock ==
  /\ OutsideClose
  /\ kt2s = "wantlock"
  /\ klock = "free"
  /\ klock' = "dispatch"
  /\ kt2s' = "dispatching"
  /\ UNCHANGED <<kclose, kchan, ks2t, ksub, kloc, kdisp, kadded>>

\* DB.dispatch: Dispatch and the deferred Unlock; back to the select
ThreadToStoreDispatch ==
  /\ OutsideClose
  /\ kt2s = "dispatching"
  /\ klock' = "free"
  /\ kdisp' = kdisp + 1
  /\ kt2s' = "select"
  /\ UNCHANGED <<kclose, kchan, ks2t, ksub, kloc, kadded>>

\* threadToStore, "case <-a.closeChan": the deferred goRoutines.Done()
ThreadToStoreExit ==
  /\ OutsideClose
  /\ kt2s = "select"
  /\ kchan
  /\ kt2s' = "done"
  /\ UNCHANGED <<klock, kclose, kchan, ks2t, ksub, kloc, kdisp, kadded>>

\* storeToThread, "case node, ok := <-l.Channel()"
StoreToThreadReceive ==
  /\ OutsideClose
  /\ ks2t = "select"
  /\ kloc > 0
  /\ kloc' = kloc - 1
  /\ ks2t' = "adding"
  /\ UNCHANGED <<klock, kclose, kchan, kt2s, ksub, kdisp, kadded>>

\* storeToThread: api.AddRecord returned
StoreToThreadAdd ==
  /\ OutsideClose
  /\ ks2t = "adding"
  /\ ks2t' = "select"
  /\ kadded' = kadded + 1
  /\ UNCHANGED <<klock, kclose, kchan, kt2s, ksub, kloc, kdisp>>

\* storeToThread, "case <-a.closeChan"
StoreToThreadExit ==
  /\ OutsideClose
  /\ ks2t = "select"
  /\ kchan
  /\ ks2t' = "done"
  /\ UNCHANGED <<klock, kclose, kchan, kt2s, ksub, kloc, kdisp, kadded>>

\* DB.Close: s.lock.Lock()
CloseLock ==
  /\ OutsideClose
  /\ kclose = "idle"
  /\ klock = "free"
  /\ klock' = "Close"
  /\ kclose' = "locked"
  /\ UNCHANGED <<kchan, kt2s, ks2t, ksub, kloc, kdisp, kadded>>

\* DB.Close -> adapter.Close: close(a.closeChan), then goRoutines.Wait()
CloseAdapter ==
  /\ OutsideClose
  /\ kclose = "locked"
  /\ kchan' = TRUE
  /\ kclose' = "waiting"
  /\ UNCHANGED <<klock, kt2s, ks2t, ksub, kloc, kdisp, kadded>>

\* goRoutines.Wait() returns once both tasks are done; the rest of DB.Close
\* and its deferred Unlock
CloseReturn ==
  /\ OutsideClose
  /\ kclose = "waiting"
  /\ kt2s = "done"
  /\ ks2t = "done"
  /\ klock' = "free"
  /\ kclose' = "returned"
  /\ UNCHANGED <<kchan, kt2s, ks2t, ksub, kloc, kdisp, kadded>>

NextClose ==
  \/ RemoteRecord
  \/ LocalCommit
  \/ ThreadToStoreReceive
  \/ ThreadToStoreFetch
  \/ ThreadToStoreLock
  \/ ThreadToStoreDispatch
  \/ ThreadToStoreExit
  \/ StoreToThreadReceive
  \/ StoreToThreadAdd
  \/ StoreToThreadExit
  \/ CloseLock
  \/ CloseAdapter
  \/ CloseReturn

(* ------------------------------------------------------------------------ *)
(* Network calls: dial, block fetch of a remote record, streamed            *)
(* write transaction                                                        *)
(* ------------------------------------------------------------------------ *)
getBlockRetries == 3
MaxStreamMsgs == 2
DialPeers == {"p1", "p2"}
NoDial == [pc |-> "idle", peer |-> Nil]
NoDialResult == [called |-> FALSE, peer |-> Nil, err |-> FALSE]
NoBlock == [tried |-> FALSE, node |-> FALSE, err |-> FALSE, attempts |-> 0]
NoRecord == [pc |-> "idle", block |-> NoBlock, res |-> "none"]

InitCalls ==
  /\ dconns = [p \in DialPeers |-> "none"]
  /\ dlk = "free"
  /\ dial = NoDial
  /\ dres = NoDialResult
  /\ wdb = "free"
  /\ wstream = [pc |-> "idle", n |-> 0]
  /\ wrec = NoRecord

\* the remote end of a cached connection goes away
ConnShutdown(p) ==
  /\ OutsideCalls
  /\ dconns[p] = "ready"
  /\ dconns' = [dconns EXCEPT ![p] = "shutdown"]
  /\ UNCHANGED <<dlk, dial, dres, wdb, wstream, wrec>>

\* server.dial: s.Lock()
DialLock(p) ==
  /\ OutsideCalls
  /\ dial.pc = "idle"
  /\ dlk = "free"
  /\ dlk' = "dial"
  /\ dial' = [pc |-> "locked", peer |-> p]
  /\ UNCHANGED <<dconns, dres, wdb, wstream, wrec>>

\* server.dial: a cached connection that is not shut down is returned
DialCached ==
  /\ OutsideCalls
  /\ dial.pc = "locked"
  /\ dconns[dial.peer] = "ready"
  /\ dres' = [called |-> TRUE, peer |-> dial.peer, err |-> FALSE]
  /\ dlk' = "free"
  /\ dial' = NoDial
  /\ UNCHANGED <<dconns, wdb, wstream, wrec>>

\* server.dial: a cached connection that is shut down is closed (and stays
\* in s.conns); grpc.DialContext starts
DialConnect ==
  /\ OutsideCalls
  /\ dial.pc = "locked"
  /\ dconns[dial.peer] # "ready"
  /\ dial' = [dial EXCEPT !.pc = "dialing"]
  /\ UNCHANGED <<dconns, dlk, dres, wdb, wstream, wrec>>

\* server.dial: grpc.DialContext returned; only a connection that was
\* opened is stored; the deferred Unlock
DialReturn(err) ==
  /\ OutsideCalls
  /\ dial.pc = "dialing"
  /\ dconns' = IF err THEN dconns ELSE [dconns EXCEPT ![dial.peer] = "ready"]
  /\ dres' = [called |-> TRUE, peer |-> dial.peer, err |-> err]
  /\ dlk' = "free"
  /\ dial' = NoDial
  /\ UNCHANGED <<wdb, wstream, wrec>>

RECURSIVE getBlockLoop(_, _)
\* the loop of getBlockWithRetry from attempt i on; outcomes[i] tells
\* whether attempt i fetches the block. The err of "n, err := rec.GetBlock"
\* is a variable of the loop body: the err returned after the loop is the
\* outer one, which nothing assigns
getBlockLoop(outcomes, i) ==
  IF i > getBlockRetries
  THEN [tried |-> TRUE, node |-> FALSE, err |-> FALSE, attempts |-> i - 1]
  ELSE IF outcomes[i]
       THEN [tried |-> TRUE, node |-> TRUE, err |-> FALSE, attempts |-> i]
       ELSE getBlockLoop(outcomes, i + 1)

\* DB.getBlockWithRetry
getBlockWithRetry(outcomes) == getBlockLoop(outcomes, 1)

\* DB.HandleNetRecord for a record of another log: the event is fetched
HandleNetRecordStart ==
  /\ OutsideCalls
  /\ wrec.pc = "idle"
  /\ wrec' = [NoRecord EXCEPT !.pc = "fetching"]
  /\ UNCHANGED <<dconns, dlk, dial, dres, wdb, wstream>>

\* DB.HandleNetRecord: EventFromRecord, and getBlockWithRetry when it
\* fails. EventFromNode of the nil block that three failed attempts leave
\* either panics or fails to decode
HandleNetRecordFetch(direct, outcomes, panics) ==
  /\ OutsideCalls
  /\ wrec.pc = "fetching"
  /\ LET b == IF direct THEN NoBlock ELSE getBlockWithRetry(outcomes)
     IN wrec' = IF direct \/ b.node
                THEN [pc |-> "fetched", block |-> b, res |-> "none"]
                ELSE IF b.err
                THEN [pc |-> "idle", block |-> b, res |-> "error"]
                ELSE [pc |-> "idle", block |-> b,
                      res |-> IF panics THEN "panic" ELSE "error"]
  /\ UNCHANGED <<dconns, dlk, dial, dres, wdb, wstream>>

\* DB.dispatch: d.lock.Lock()
HandleNetRecordLock ==
  /\ OutsideCalls
  /\ wrec.pc = "fetched"
  /\ wdb = "free"
  /\ wdb' = "dispatch"
  /\ wrec' = [wrec EXCEPT !.pc = "dispatching"]
  /\ UNCHANGED <<dconns, dlk, dial, dres, wstream>>

\* DB.dispatch: Dispatch and the deferred Unlock
HandleNetRecordDispatch ==
  /\ OutsideCalls
  /\ wrec.pc = "dispatching"
  /\ wdb' = "free"
  /\ wrec' = [wrec EXCEPT !.pc = "idle", !.res = "dispatched"]
  /\ UNCHANGED <<dconns, dlk, dial, dres, wstream>>

\* service.WriteTransaction: model.WriteTxn takes the DB write lock and
\* runs the loop, which waits in stream.Recv()
StreamBegin ==
  /\ OutsideCalls
  /\ wstream.pc \in {"idle", "done"}
  /\ wdb = "free"
  /\ wdb' = "txn"
  /\ wstream' = [pc |-> "recv", n |-> 0]
  /\ UNCHANGED <<dconns, dlk, dial, dres, wrec>>

\* the client's next request arrives
StreamRecv ==
  /\ OutsideCalls
  /\ wstream.pc = "recv"
  /\ wstream.n < MaxStreamMsgs
  /\ wstream' = [pc |-> "apply", n |-> wstream.n + 1]
  /\ UNCHANGED <<dconns, dlk, dial, dres, wdb, wrec>>

\* the request is applied to the transaction and the reply sent
StreamApply ==
  /\ OutsideCalls
  /\ wstream.pc = "apply"
  /\ wstream' = [wstream EXCEPT !.pc = "recv"]
  /\ UNCHANGED <<dconns, dlk, dial, dres, wdb, wrec>>

\* stream.Recv() returns io.EOF: the transaction commits, the lock is
\* released
StreamEOF ==
  /\ OutsideCalls
  /\ wstream.pc = "recv"
  /\ wdb' = "free"
  /\ wstream' = [wstream EXCEPT !.pc = "done"]
  /\ UNCHANGED <<dconns, dlk, dial, dres, wrec>>

\* a dial, an RPC, a block fetch or a wait for a client message is under way
NetworkCallInProgress ==
  \/ dial.pc = "dialing"
  \/ wrec.pc = "fetching"
  \/ wstream.pc = "recv"

NextCalls ==
  \/ \E p \in DialPeers : ConnShutdown(p)
  \/ \E p \in DialPeers : DialLock(p)
  \/ DialCached
  \/ DialConnect
  \/ \E err \in BOOLEAN : DialReturn(err)
  \/ HandleNetRecordStart
  \/ \E direct \in BOOLEAN, outcomes \in [1..getBlockRetries -> BOOLEAN],
        panics \in BOOLEAN : HandleNetRecordFetch(direct, outcomes, panics)
  \/ HandleNetRecordLock
  \/ HandleNetRecordDispatch
  \/ StreamBegin
  \/ StreamRecv
  \/ StreamApply
  \/ StreamEOF

(* ------------------------------------------------------------------------ *)
(* dispatcher.Dispatch called from several tasks                            *)
(* ------------------------------------------------------------------------ *)
MaxDispatches == 2
DispatchCallers == {"c1", "c2"}
DispatchReducers == {"r1", "r2"}

\* a dispatcher with two registered reducers
InitDispatcher ==
  /\ zlock = "free"
  /\ zcall = [c \in DispatchCallers |-> [pc |-> "idle", n |-> 0, pending |-> {}]]
  /\ zstore = <<>>
  /\ zred = [r \in DispatchReducers |-> <<>>]

\* faulty lock: Lock() never waits
MutexFreeAlways(holder) == TRUE

\* sync.Mutex: Lock() returns only when nobody holds the mutex
MutexFree(holder) == holder = "free"

\* a task calls Dispatch and reaches d.lock.Lock()
DispatcherCall(c) ==
  /\ OutsideDispatcher
  /\ zcall[c].pc = "idle"
  /\ zcall[c].n < MaxDispatches
  /\ zcall' = [zcall EXCEPT ![c].pc = "lock", ![c].n = @ + 1]
  /\ UNCHANGED <<zlock, zstore, zred>>

\* Dispatch: d.lock.Lock()
DispatcherLock(c) ==
  /\ OutsideDispatcher
  /\ zcall[c].pc = "lock"
  /\ MutexFree(zlock)
  /\ zlock' = c
  /\ zcall' = [zcall EXCEPT ![c].pc = "put"]
  /\ UNCHANGED <<zstore, zred>>

\* Dispatch: the event is encoded and put in the event store; one task per
\* reducer is launched
DispatcherPut(c) ==
  /\ OutsideDispatcher
  /\ zcall[c].pc = "put"
  /\ zstore' = Append(zstore, <<c, zcall[c].n>>)
  /\ zcall' = [zcall EXCEPT ![c].pc = "reduce", ![c].pending = DispatchReducers]
  /\ UNCHANGED <<zlock, zred>>

\* one reducer's task runs reducer.Reduce(event)
DispatcherRunReducer(c, r) ==
  /\ OutsideDispatcher
  /\ zcall[c].pc = "reduce"
  /\ r \in zcall[c].pending
  /\ zred' = [zred EXCEPT ![r] = Append(@, <<c, zcall[c].n>>)]
  /\ zcall' = [zcall EXCEPT ![c].pending = @ \ {r}]
  /\ UNCHANGED <<zlock, zstore>>

\* Dispatch: g.Wait() returns when every reducer is done; deferred Unlock
DispatcherUnlock(c) ==
  /\ OutsideDispatcher
  /\ zcall[c].pc = "reduce"
  /\ zcall[c].pending = {}
  /\ zlock' = "free"
  /\ zcall' = [zcall EXCEPT ![c].pc = "idle"]
  /\ UNCHANGED <<zstore, zred>>

NextDispatcher ==
  \/ \E c \in DispatchCallers : DispatcherCall(c)
  \/ \E c \in DispatchCallers : DispatcherLock(c)
  \/ \E c \in DispatchCallers : DispatcherPut(c)
  \/ \E c \in DispatchCallers, r \in DispatchReducers : DispatcherRunReducer(c, r)
  \/ \E c \in DispatchCallers : DispatcherUnlock(c)

\* s is an initial segment of t
IsPrefix(s, t) == Len(s) <= Len(t) /\ \A i \in 1..Len(s) : s[i] = t[i]

(* ------------------------------------------------------------------------ *)
(* Listener channels: notify, Listener.Close, DB.Close                      *)
(* ------------------------------------------------------------------------ *)
MaxNotifies == 2
LifeListeners == {"l1", "l2"}
NotNotifying == [pc |-> "idle", i |-> 0, n |-> 0, l |-> Nil, runs |-> 0]

\* a DB on which Listen was called twice
InitLife ==
  /\ harr = <<"l1", "l2">>
  /\ hlen = 2
  /\ hchan = [l \in LifeListeners |-> [closes |-> 0, buffered |-> 0]]
  /\ hnotify = NotNotifying
  /\ hclose = [l \in LifeListeners |-> "idle"]
  /\ hdb = "open"
  /\ hpanic = "none"

\* notify (called by DB.Reduce under the DB lock): "range scn.listeners"
\* fixes the slice header, a batch of one action
NotifyStart ==
  /\ OutsideLife
  /\ hpanic = "none"
  /\ hdb = "open"
  /\ hnotify.pc = "idle"
  /\ hnotify.runs < MaxNotifies
  /\ hnotify' = [pc |-> IF hlen = 0 THEN "idle" ELSE "read", i |-> 1,
                  n |-> hlen, l |-> Nil, runs |-> hnotify.runs + 1]
  /\ UNCHANGED <<harr, hlen, hchan, hclose, hdb, hpanic>>

\* notify: the next element of the backing array is read and evaluated;
\* evaluate of a nil listener is a nil dereference
NotifyRead ==
  /\ OutsideLife
  /\ hpanic = "none"
  /\ hnotify.pc = "read"
  /\ LET l == harr[hnotify.i]
     IN IF l = Nil
        THEN /\ hpanic' = "nil listener"
             /\ UNCHANGED hnotify
        ELSE /\ hnotify' = [hnotify EXCEPT !.pc = "send", !.l = l]
             /\ UNCHANGED hpanic
  /\ UNCHANGED <<harr, hlen, hchan, hclose, hdb>>

\* notify: the non-blocking send "case l.c <- a"; a send on a closed channel
\* panics, a full channel drops the action
NotifySend ==
  /\ OutsideLife
  /\ hpanic = "none"
  /\ hnotify.pc = "send"
  /\ LET l == hnotify.l
     IN IF hchan[l].closes > 0
        THEN /\ hpanic' = "send on closed channel"
             /\ UNCHANGED <<hchan, hnotify>>
        ELSE /\ hchan' = [hchan EXCEPT ![l].buffered =
                             IF @ < ChanCap THEN @ + 1 ELSE @]
             /\ hnotify' = IF hnotify.i = hnotify.n
                            THEN [hnotify EXCEPT !.pc = "idle", !.l = Nil]
                            ELSE [hnotify EXCEPT !.pc = "read", !.l = Nil,
                                                 !.i = @ + 1]
             /\ UNCHANGED hpanic
  /\ UNCHANGED <<harr, hlen, hclose, hdb>>

\* index of listener l in the slice, 0 when it is not there
SlotOf(l) ==
  IF \E i \in 1..hlen : harr[i] = l
  THEN CHOOSE i \in 1..hlen : harr[i] = l
  ELSE 0

\* Listener.Close -> scn.remove: the last listener takes the slot, the last
\* slot is set to nil, the slice shrinks
ListenerRemove(l) ==
  /\ OutsideLife
  /\ hpanic = "none"
  /\ hclose[l] = "idle"
  /\ LET i == SlotOf(l)
     IN IF i = 0
        THEN /\ hclose' = [hclose EXCEPT ![l] = "done"]
             /\ UNCHANGED <<harr, hlen>>
        ELSE /\ harr' = [[harr EXCEPT ![i] = harr[hlen]] EXCEPT ![hlen] = Nil]
             /\ hlen' = hlen - 1
             /\ hclose' = [hclose EXCEPT ![l] = "removed"]
  /\ UNCHANGED <<hchan, hnotify, hdb, hpanic>>

\* Listener.Close: remove returned true, close(sl.c)
ListenerCloseChannel(l) ==
  /\ OutsideLife
  /\ hpanic = "none"
  /\ hclose[l] = "removed"
  /\ hchan' = [hchan EXCEPT ![l].closes = @ + 1]
  /\ hpanic' = IF hchan[l].closes > 0 THEN "close of closed channel" ELSE "none"
  /\ hclose' = [hclose EXCEPT ![l] = "done"]
  /\ UNCHANGED <<harr, hlen, hnotify, hdb>>

\* DB.Close under the DB lock (no notify runs): stateChangedNotifee.close
\* closes the channel of every listener of the slice and leaves the slice
\* as it is
DBClose ==
  /\ OutsideLife
  /\ hpanic = "none"
  /\ hdb = "open"
  /\ hnotify.pc = "idle"
  /\ hdb' = "closed"
  /\ hchan' = [l \in LifeListeners |->
                 IF SlotOf(l) # 0 THEN [hchan[l] EXCEPT !.closes = @ + 1]
                 ELSE hchan[l]]
  /\ hpanic' = IF \E l \in LifeListeners : SlotOf(l) # 0 /\ hchan[l].closes > 0
                THEN "close of closed channel" ELSE "none"
  /\ UNCHANGED <<harr, hlen, hnotify, hclose>>

NextLife ==
  \/ NotifyStart
  \/ NotifyRead
  \/ NotifySend
  \/ \E l \in LifeListeners : ListenerRemove(l)
  \/ \E l \in LifeListeners : ListenerCloseChannel(l)
  \/ DBClose

(* ------------------------------------------------------------------------ *)
(* Log store of a thread: GetThread after record pulls                      *)
(* ------------------------------------------------------------------------ *)
StoreLogs == {"g1", "g2", "g3"}

\* an empty log store
InitLogs ==
  /\ gservice = FALSE
  /\ gkeys = {}
  /\ gaddrs = {}
  /\ glast = "none"

\* logstore.AddThread: stores the service key of the thread
LogStoreAddThread ==
  /\ OutsideLogs
  /\ gservice' = TRUE
  /\ glast' = "none"
  /\ UNCHANGED <<gkeys, gaddrs>>

\* logstore.AddLog: public key, addresses and heads of the log
LogStoreAddLog(l) ==
  /\ OutsideLogs
  /\ UNCHANGED gservice
  /\ gkeys' = gkeys \cup {l}
  /\ gaddrs' = gaddrs \cup {l}
  /\ glast' = "none"

\* getRecordsFromPeer, one log entry of the reply: the addresses of the
\* entry are added; without a public key, stored or supplied, the records
\* are skipped
GetRecordsReplyLog(l, withAddrs, withPubKey) ==
  /\ OutsideLogs
  /\ gservice
  /\ UNCHANGED gservice
  /\ gaddrs' = IF withAddrs THEN gaddrs \cup {l} ELSE gaddrs
  /\ gkeys' = IF l \notin gkeys /\ withPubKey THEN gkeys \cup {l} ELSE gkeys
  /\ glast' = "none"

\* logstore.GetLog
GetLog(keys, l) == IF l \in keys THEN "nil" ELSE "ErrLogNotFound"

\* logstore.GetThread: GetLog for every log with keys or addresses
GetThread ==
  /\ OutsideLogs
  /\ glast' = IF ~gservice THEN "ErrThreadNotFound"
               ELSE IF \A l \in gkeys \cup gaddrs : GetLog(gkeys, l) = "nil"
                    THEN "nil" ELSE "ErrLogNotFound"
  /\ UNCHANGED <<gservice, gkeys, gaddrs>>

NextLogs ==
  \/ LogStoreAddThread
  \/ \E l \in StoreLogs : LogStoreAddLog(l)
  \/ \E l \in StoreLogs, a \in BOOLEAN, k \in BOOLEAN : GetRecordsReplyLog(l, a, k)
  \/ GetThread

(* ------------------------------------------------------------------------ *)
(* getRecords: concurrent pulls of one log from several peers               *)
(* ------------------------------------------------------------------------ *)
MaxChain == 4

MaxPullLimit == 4

PullPeers == {"p1", "p2"}

minInt(a, b) == IF a < b THEN a ELSE b

NoRecords == [m |-> {}, s |-> <<>>, panic |-> FALSE]

InitPull ==
  /\ ppc = "idle"
  /\ preq = [offset |-> 0, limit |-> 1]
  /\ pst = [p \in PullPeers |-> "done"]
  /\ preply = [p \in PullPeers |-> <<>>]
  /\ ppos = [p \in PullPeers |-> 0]
  /\ precs = NoRecords

\* a key that Store never finds in the map
SeenNever(m, key) == FALSE

\* records.Store: the lookup of the key in the map of the log
Seen(m, key) == key \in m

\* records.Store: a known cid is skipped; a record whose prev is not the
\* last record of the list panics; else the record is appended
RecordsStore(r, key) ==
  IF Seen(r.m, key) THEN r
  ELSE IF Len(r.s) > 0 /\ r.s[Len(r.s)] # PrevID(key)
       THEN [r EXCEPT !.m = @ \cup {key}, !.panic = TRUE]
       ELSE [r EXCEPT !.m = @ \cup {key}, !.s = Append(@, key)]

\* getLocalRecords: the records of the log strictly after the offset, oldest
\* first, at most limit of them, on a peer whose head is record head
getLocalRecords(head, offset, limit) ==
  LET n == IF head > offset THEN minInt(head - offset, limit) ELSE 0
  IN [i \in 1..n |-> offset + i]

\* getRecords: the request is built once, a new collector is made and one
\* goroutine per peer is started
getRecordsStart(offset, limit) ==
  /\ OutsidePull
  /\ ppc = "idle"
  /\ ppc' = "pulling"
  /\ preq' = [offset |-> offset, limit |-> limit]
  /\ pst' = [p \in PullPeers |-> "called"]
  /\ preply' = [p \in PullPeers |-> <<>>]
  /\ ppos' = [p \in PullPeers |-> 0]
  /\ precs' = NoRecords

\* server.GetRecords on peer p, which holds the log up to head among nlogs
\* logs of the thread; getRecordsFromPeer verifies the records of the reply
ServerGetRecords(p, head, nlogs) ==
  /\ OutsidePull
  /\ ppc = "pulling"
  /\ ~precs.panic
  /\ pst[p] = "called"
  /\ LET logRecordLimit == MaxPullLimit \div nlogs
         limit == minInt(preq.limit, logRecordLimit)
     IN preply' = [preply EXCEPT ![p] = getLocalRecords(head, preq.offset, limit)]
  /\ pst' = [pst EXCEPT ![p] = "replied"]
  /\ UNCHANGED <<ppc, preq, ppos, precs>>

\* the goroutine of peer p stores the next record of its reply
CollectorStore(p) ==
  /\ OutsidePull
  /\ ~precs.panic
  /\ pst[p] = "replied"
  /\ ppos[p] < Len(preply[p])
  /\ precs' = RecordsStore(precs, preply[p][ppos[p] + 1])
  /\ ppos' = [ppos EXCEPT ![p] = @ + 1]
  /\ UNCHANGED <<ppc, preq, pst, preply>>

\* the goroutine of peer p returns: wg.Done
PullDone(p) ==
  /\ OutsidePull
  /\ ~precs.panic
  /\ pst[p] = "replied"
  /\ ppos[p] = Len(preply[p])
  /\ pst' = [pst EXCEPT ![p] = "done"]
  /\ UNCHANGED <<ppc, preq, preply, ppos, precs>>

\* getRecords: wg.Wait is over, the list is returned
getRecordsReturn ==
  /\ OutsidePull
  /\ ppc = "pulling"
  /\ \A p \in PullPeers : pst[p] = "done"
  /\ ppc' = "idle"
  /\ UNCHANGED <<preq, pst, preply, ppos, precs>>

NextPull ==
  \/ \E o \in 0..(MaxChain - 1), l \in 1..MaxPullLimit : getRecordsStart(o, l)
  \/ \E p \in PullPeers, h \in 0..MaxChain, n \in 1..2 : ServerGetRecords(p, h, n)
  \/ \E p \in PullPeers : CollectorStore(p)
  \/ \E p \in PullPeers : PullDone(p)
  \/ getRecordsReturn

(* ------------------------------------------------------------------------ *)
(* Specifications                                                           *)
(* ------------------------------------------------------------------------ *)
InitLate == InitClose /\ InitCalls /\ InitDispatcher /\ InitLife /\ InitLogs
            /\ InitPull

InitRest == InitMgr /\ InitAuth /\ InitLate

InitOther == InitUnique /\ InitRest

Init == InitDB /\ InitNet /\ InitRepl /\ InitQueue /\ InitEdges /\ InitOther

\* one goroutine in writeTxn: every Txn call, Commit, Dispatch
NextTxn ==
  \/ WriteTxnBegin
  \/ \E i \in IDs, b \in Bodies : TxnCreate(i, b)
  \/ \E i \in IDs, b \in Bodies : TxnSave(i, b)
  \/ \E i \in IDs : TxnDelete(i)
  \/ \E ids \in DeleteArgs : TxnDeleteAll(ids)
  \/ \E i \in IDs : TxnHas(i)
  \/ \E i \in IDs : TxnFindByID(i)
  \/ \E b \in Bodies : TxnFind(b)
  \/ TxnDiscard
  \/ TxnCommit
  \/ \E r \in {"nil", "err"} : FReturn(r)
  \/ WriteTxnReturn
  \/ \E putErr \in BOOLEAN : DispatchPersist(putErr)
  \/ DispatchReduce
  \/ DispatchNotify
  \/ \E busErr \in BOOLEAN : CommitReturn(busErr)

\* batches, local and remote, that one run of the read/write specification
\* begins
MaxBatchesRW == 2

\* writeTxn while the run may begin another batch
WriteTxnBeginRW ==
  /\ clock + nremote < MaxBatchesRW
  /\ WriteTxnBegin

\* HandleNetRecord while the run may begin another batch
HandleNetRecordRW(own, events) ==
  /\ clock + nremote < MaxBatchesRW
  /\ HandleNetRecord(own, events)

\* write transactions, remote records and a read transaction on one DB
NextRW ==
  \/ WriteTxnBeginRW
  \/ \E i \in IDs, b \in Bodies : TxnCreate(i, b)
  \/ \E i \in IDs, b \in Bodies : TxnSave(i, b)
  \/ \E i \in IDs : TxnDelete(i)
  \/ \E r \in {"nil", "err"} : FReturn(r)
  \/ WriteTxnReturn
  \/ \E putErr \in BOOLEAN : DispatchPersist(putErr)
  \/ DispatchReduce
  \/ DispatchNotify
  \/ \E busErr \in BOOLEAN : CommitReturn(busErr)
  \/ \E own \in BOOLEAN, events \in RemoteBatches : HandleNetRecordRW(own, events)
  \/ NetDispatchReturn
  \/ ReadTxnBegin
  \/ \E i \in IDs : ReadFindByID(i)
  \/ ReadTxnEnd

\* write transactions and the consumer of a listener
NextListen ==
  \/ WriteTxnBegin
  \/ \E i \in IDs, b \in Bodies : TxnCreate(i, b)
  \/ \E i \in IDs, b \in Bodies : TxnSave(i, b)
  \/ \E i \in IDs : TxnDelete(i)
  \/ \E r \in {"nil", "err"} : FReturn(r)
  \/ WriteTxnReturn
  \/ \E putErr \in BOOLEAN : DispatchPersist(putErr)
  \/ DispatchReduce
  \/ DispatchNotify
  \/ \E busErr \in BOOLEAN : CommitReturn(busErr)
  \/ \E n \in DOMAIN listeners : Consume(n)

Spec == Init /\ [][NextTxn]_vars

SpecRW == Init /\ [][NextRW]_vars

SpecListen == Init /\ [][NextListen]_vars

\* the ListenOption lists a listener is registered with
ListenFilters ==
  { <<>>,
    <<[Type |-> "Save", Collection |-> AnyCollection, ID |-> Nil]>>,
    <<[Type |-> "All", Collection |-> CollectionName, ID |-> "i1"]>>,
    <<[Type |-> "All", Collection |-> OtherCollection, ID |-> Nil],
      [Type |-> "Delete", Collection |-> AnyCollection, ID |-> Nil]>> }

\* a listener registered with any of the filter lists
InitAnyListener ==
  /\ \E f \in ListenFilters : InitDBWith(f)
  /\ InitNet
  /\ InitRepl
  /\ InitQueue
  /\ InitEdges
  /\ InitOther

\* write transactions, the consumer of the listener and its Close
NextListener ==
  \/ WriteTxnBegin
  \/ \E i \in IDs, b \in Bodies : TxnCreate(i, b)
  \/ \E i \in IDs, b \in Bodies : TxnSave(i, b)
  \/ \E i \in IDs : TxnDelete(i)
  \/ \E r \in {"nil", "err"} : FReturn(r)
  \/ WriteTxnReturn
  \/ \E putErr \in BOOLEAN : DispatchPersist(putErr)
  \/ DispatchReduce
  \/ DispatchNotify
  \/ DispatchNotifyPanics
  \/ \E busErr \in BOOLEAN : CommitReturn(busErr)
  \/ \E n \in DOMAIN listeners : Consume(n)
  \/ \E n \in DOMAIN listeners : ConsumerPark(n)
  \/ \E n \in DOMAIN listeners : ListenerClose(n)

SpecListener == InitAnyListener /\ [][NextListener]_vars

\* the receiver holds the thread with its keys, with the service key only, or
\* not at all
InitAnyReceiver ==
  /\ InitDB
  /\ \E k \in {"none", "service", "full"} : InitNetWith(k)
  /\ InitRepl
  /\ InitQueue
  /\ InitEdges
  /\ InitOther

SpecNet == InitAnyReceiver /\ [][NextNet]_vars

SpecRepl == Init /\ [][NextRepl]_vars

SpecQueue == Init /\ [][NextQueue]_vars

\* any edges at the two peers when the exchange starts
InitAnyEdges ==
  /\ InitDB
  /\ InitNet
  /\ InitRepl
  /\ InitQueue
  /\ \E le \in [Sides -> [Tids -> ThreadEdges]] : InitEdgesWith(le)
  /\ InitOther

SpecEdges == InitAnyEdges /\ [][NextEdges]_vars

\* a collection created with or without the unique secondary index
InitAnyUnique ==
  /\ InitDB
  /\ InitNet
  /\ InitRepl
  /\ InitQueue
  /\ InitEdges
  /\ \E ixs \in {{idIndex}, {idIndex, emailIndex}} : InitUniqueWith(ixs)
  /\ InitRest

\* key k is listed in the bucket of value v of the secondary path
Listed(idx, v, k) ==
  \E n \in 1..Len(idx[<<emailPath, v>>]) : idx[<<emailPath, v>>][n] = k

\* every key listed under a value belongs to a stored instance with it
IndexSound(st, idx) ==
  \A v \in Bodies, k \in IDs : Listed(idx, v, k) => st[k] = v

SpecUnique == InitAnyUnique /\ [][NextUnique]_vars

\* the collection with its writes, index changes and queries
NextFind ==
  \/ \E i \in IDs, b \in Bodies : UniqueCreate(i, b)
  \/ \E i \in IDs, b \in Bodies : UniqueSave(i, b)
  \/ \E i \in IDs : UniqueDelete(i)
  \/ \E w \in BOOLEAN : UpdateCollection(w)
  \/ \E q \in Queries, u \in BOOLEAN : Find(q, u)

SpecFind == InitAnyUnique /\ [][NextFind]_vars

SpecMgr == Init /\ [][NextMgr]_vars

\* any service key stored per thread, a log only where a key is stored
InitAnyAuth ==
  /\ InitDB
  /\ InitNet
  /\ InitRepl
  /\ InitQueue
  /\ InitEdges
  /\ InitUnique
  /\ InitMgr
  /\ InitLate
  /\ \E stored \in [AuthThreads -> ServiceKeys \cup {NoKey}],
        logs \in [AuthThreads -> 0..1] :
       /\ \A t \in AuthThreads : stored[t] = NoKey => logs[t] = 0
       /\ InitAuthWith(stored, logs)

\* every task that can take a step eventually takes one
SpecCloseFair ==
  /\ Init
  /\ [][NextClose]_vars
  /\ WF_vars(ThreadToStoreReceive) /\ WF_vars(ThreadToStoreFetch)
  /\ WF_vars(ThreadToStoreLock) /\ WF_vars(ThreadToStoreDispatch)
  /\ WF_vars(ThreadToStoreExit)
  /\ WF_vars(StoreToThreadReceive) /\ WF_vars(StoreToThreadAdd)
  /\ WF_vars(StoreToThreadExit)
  /\ WF_vars(CloseLock) /\ WF_vars(CloseAdapter) /\ WF_vars(CloseReturn)

SpecPull == Init /\ [][NextPull]_vars

SpecLogs == Init /\ [][NextLogs]_vars

SpecLife == Init /\ [][NextLife]_vars

SpecDispatcher == Init /\ [][NextDispatcher]_vars

SpecCalls == Init /\ [][NextCalls]_vars

SpecPushLog == Init /\ [][NextPushLog]_vars

SpecAuth == InitAnyAuth /\ [][NextAuth]_vars

(* ------------------------------------------------------------------------ *)
(* Properties                                                               *)
(* ------------------------------------------------------------------------ *)
\* every record of every log has been handed to HandleNetRecord at each peer
Quiescent == \A p \in Peers, q \in Peers : papplied[p][q] = Len(plog[q])

\* C1: once the two peers have exchanged all their records, FindByID gives
\* the same bytes (or the same not-found) at both peers for every instance id
C1_PeersConverge ==
  Quiescent => \A i \in IDs : pstore["p1"][i] = pstore["p2"][i]

C3_TerminalTxnRejectsCalls == last.term => (last.err /\ ~last.eff)

\* C4: while a read transaction is open no write transaction and no dispatch
\* is under way, the instances are the ones it found when it opened, and
\* what it reads is what they were then
C4_ReadTxnIsolated ==
  rpc = "open" =>
    /\ wpc = "idle"
    /\ disp.phase = "none"
    /\ store = rsnap
    /\ robs.id # Nil => robs.val = rsnap[robs.id]

\* C4 witness: an open read transaction has read an instance that an earlier
\* batch created
C4_ReadCommitted == rpc = "open" /\ robs.id # Nil /\ robs.val # Nil

C6_PersistBeforeReduce ==
  /\ (disp.phase = "reduce" \/ disp.reduced) =>
       \A n \in 1..Len(disp.events) :
         \E p \in dstore : p.key = EventKey(disp.events[n])
  /\ disp.perr => (disp.phase = "return" /\ ~disp.reduced)

\* C6 witness: the reducer ran on a persisted batch of two events
C6_ReducedPersisted == disp.reduced /\ Len(disp.events) = 2

\* C7: when the reducer returned an error, Dispatch returns an error and no
\* listener was sent an action of the batch
C7_ReducerErrorFailsDispatch ==
  disp.rerr => (disp.phase = "return" /\ disp.err /\ disp.sent = 0)

\* C7 witness: the reducer failed on a batch
C7_ReducerFailed == disp.rerr /\ disp.phase = "return"

\* C8: the events handed to the reducer are the transaction's actions in the
\* order they were issued, the actions handed to the listeners are those
\* events in the same order, and a listener's consumer receives them in it
C8_OrderPreserved ==
  /\ recvOrdered
  /\ (disp.owner = "writer" /\ disp.phase # "none") =>
       /\ Len(disp.events) = Len(txn.actions)
       /\ \A n \in 1..Len(txn.actions) :
            /\ disp.events[n].Type = txn.actions[n].Type
            /\ disp.events[n].InstanceID = txn.actions[n].InstanceID
            /\ disp.events[n].Body = txn.actions[n].Current
  /\ disp.acts # <<>> =>
       /\ Len(disp.acts) = Len(disp.events)
       /\ \A n \in 1..Len(disp.acts) :
            /\ disp.acts[n].Type = disp.events[n].Type
            /\ disp.acts[n].ID = disp.events[n].InstanceID
  /\ \A l \in DOMAIN listeners : \A j \in 1..Len(listeners[l].c) :
       LET m == listeners[l].c[j]
       IN m.seq = disp.seq => (m.k < disp.k /\ m.a = disp.acts[m.k])

\* C8 witness: the consumer has received the second action of a batch
C8_SecondReceived == recv[1].k = 2

\* C9: a PushRecord call that finds the record's cid known, at the isKnown
\* test or later inside PutRecord, returns success, and no record is stored
\* or delivered twice, however direct and gossip calls for it interleave
C9_KnownRecordIsNoOp ==
  /\ \A id \in CallIds :
       calls[id].wasKnown =>
         (calls[id].pc \in {"replied", "done"} /\ calls[id].res = "OK")
  /\ \A c \in Cids : xcount[c] <= 1

\* C9 witness: a direct and a gossip call for one record both returned
\* success, one of them having found it known
C9_DuplicateAnswered ==
  \E c \in Cids :
    /\ calls[<<"direct", c, "L1">>].pc = "done"
    /\ calls[<<"gossip", c, "L1">>].pc = "done"
    /\ calls[<<"direct", c, "L1">>].res = "OK"
    /\ calls[<<"gossip", c, "L1">>].res = "OK"
    /\ \E id \in {<<"direct", c, "L1">>, <<"gossip", c, "L1">>} : calls[id].wasKnown

\* C10: when a direct PushRecord was answered NotFound and the PushLog that
\* followed has been processed, with no record pull left to run, the receiver
\* has stored the record and the head of the log is at it or beyond
C10_FollowUpStoresRecord ==
  \A c \in Cids :
    LET id == <<"direct", c, "L1">>
    IN (calls[id].pc = "done" /\ calls[id].res = "NotFound" /\ ~xqueue) =>
         (c \in xknown /\ xhead["L1"] >= c)

\* C11: the PushLog that follows a NotFound reply carries the thread's
\* service key, and the receiver, whether or not it knew the thread, accepts
\* the log: the call succeeds and the log is installed
C11_FollowUpLogAccepted ==
  \A c \in Cids :
    LET id == <<"direct", c, "L1">>
    IN (calls[id].pc = "done" /\ calls[id].res = "NotFound") =>
         (FollowUpKeys.sk /\ calls[id].logres = "OK" /\ "L1" \in xpub)

C13_IdenticalEdgesScheduleNothing ==
  epc = "done" =>
    \A i \in 1..Len(ereply) :
      (ereply[i].exists /\ ereply[i].a = ereq[i].a /\ ereply[i].h = ereq[i].h) =>
        \A q \in Queues : <<q, ereq[i].tid>> \notin esched

\* C14: the responder answers Exists=false for a thread only when it does
\* not know the thread, and then a GetLogs call for it is scheduled at High
\* priority
C14_NotExistsIsUnknown ==
  \A i \in 1..Len(ereply) :
    ~ereply[i].exists =>
      /\ localEdges(ledge["resp"][ereq[i].tid]) = errNoAddrsEdge
      /\ qpend["resp"]["GetLogs"][ereq[i].tid] = callPriorityHigh

\* C14 (amended): the responder answers Exists=false for a thread only when
\* it does not know the thread or has no heads of it; in the first case a
\* GetLogs call for it is scheduled at High priority, in the second a
\* GetRecords call for it is scheduled
C14_NotExistsIsUnknownOrHeadless ==
  \A i \in 1..Len(ereply) :
    ~ereply[i].exists =>
      LET t == ereq[i].tid
          err == localEdges(ledge["resp"][t])
      IN \/ err = errNoAddrsEdge /\ qpend["resp"]["GetLogs"][t] = callPriorityHigh
         \/ err = errNoHeadsEdge /\ qpend["resp"]["GetRecords"][t] # NoPriority

\* C14 witness: one reply says Exists=false for a thread the responder does
\* not know and for a thread it knows without heads
C14_BothNotExists ==
  \E i, j \in 1..Len(ereply) :
    /\ ~ereply[i].exists /\ ledge["resp"][ereq[i].tid].a = 0
    /\ ~ereply[j].exists /\ ledge["resp"][ereq[j].tid].a # 0

\* C15: with a unique index on the path, a Create whose value at the path is
\* that of a different stored instance fails with the unique-violation error,
\* and no two stored instances share a value at the path
C15_UniqueRejectsOverlap ==
  /\ (ulast.op = ActionCreate /\ ulast.unique /\ ulast.clash) =>
       ulast.err \in {"ErrUniqueExists", "errCantCreateExistingInstance"}
  /\ emailIndex \in uindexes =>
       \A i, j \in IDs : (i # j /\ ustore[i] # Nil) => ustore[i] # ustore[j]

\* C15 (amended): the same, for a collection whose unique index has been
\* registered since before its first instance was stored
C15_UniqueSinceEmptyRejectsOverlap ==
  usince =>
    /\ (ulast.op = ActionCreate /\ ulast.clash) =>
         ulast.err \in {"ErrUniqueExists", "errCantCreateExistingInstance"}
    /\ \A i, j \in IDs : (i # j /\ ustore[i] # Nil) => ustore[i] # ustore[j]

\* C15 witness: a Create was rejected with the unique-violation error while
\* another instance holds the value
C15_OverlapRejected ==
  /\ usince
  /\ ulast.op = ActionCreate /\ ulast.clash /\ ulast.err = "ErrUniqueExists"
  /\ ustore[ulast.id] = Nil

\* C16: a listener that is still registered receives every applied action
\* that matches its filters, in the order applied and none missing, and
\* nothing that does not match
C16_ListenerSeesEveryMatch ==
  /\ recvOrdered
  /\ \A n \in DOMAIN listeners :
       /\ listeners[n].open => ~listeners[n].dropped
       /\ \A m \in 1..Len(listeners[n].c) :
            evaluate(listeners[n].filters, listeners[n].c[m].a)

\* C17: the notification of a dispatch never waits for a listener and always
\* completes, whether the channel is full, never read or being closed
C17_NotifyNeverWaits ==
  /\ disp.phase = "notify" => ENABLED DispatchNotify
  /\ disp.phase # "panic"

\* C18: inside an open write transaction in which nothing was committed
\* yet, Has, FindByID and Find return what they would have returned when the
\* transaction started, whatever was created, saved or deleted in it since
C18_TxnReadsStartState ==
  (wpc = "f" /\ last.op \in {"Has", "FindByID", "Find"}
     /\ clock = txn.startClock) =>
    last.res = ReadResult(last.op, last.arg, txn.start)

\* C18 witness: Has answers false for an instance the transaction created
C18_CreatedNotSeen ==
  /\ wpc = "f" /\ last.op = "Has" /\ last.res = FALSE
  /\ clock = txn.startClock
  /\ \E n \in 1..Len(txn.actions) :
       /\ txn.actions[n].Type = ActionCreate
       /\ txn.actions[n].InstanceID = last.arg

\* C19: a Delete of several ids fails with NotFound when one of them does
\* not exist, and no delete that the failed call buffered for the other ids
\* is ever handed to the dispatcher
C19_FailedDeleteDeletesNothing ==
  /\ (last.op = "DeleteAll" /\ wpc = "f"
       /\ \E n \in 1..2 : store[last.arg[n]] = Nil) => last.err
  /\ (disp.owner = "writer" /\ disp.phase # "none") => txn.partial = {}

\* C20: a Find that names the index of the path returns the instances the
\* same query returns without it: all of them match the query, no matching
\* instance is missing, also when the path has no index entry
C20_IndexedFindIsFullScan ==
  (ufind.op = "Find" /\ ufind.useIndex) => ufind.res = FullScan(ufind.q, ustore)

C22_RestartKeepsDBs ==
  (mopen /\ mrestarts > 0) =>
    \A t \in mok : mdbs[t] /\ mbefore[t] \subseteq mcolls[t]

\* C23: a GetLogs or GetRecords reply carries logs or records only when the
\* key of the request equals the stored service key byte for byte; without a
\* key, or with a key that differs from the stored one, the call fails with
\* Unauthenticated and the reply is empty
C23_DataOnlyWithServiceKey ==
  alast.op # "none" =>
    /\ (alast.logs > 0 \/ alast.records > 0) =>
         (alast.key # NoKey /\ alast.key = astored[alast.tid])
    /\ alast.key = NoKey => alast.code = "Unauthenticated"
    /\ (~alast.storeErr /\ astored[alast.tid] # NoKey
          /\ alast.key # astored[alast.tid]) => alast.code = "Unauthenticated"
    /\ alast.code # "OK" => (alast.logs = 0 /\ alast.records = 0)

\* C23 witness: a request with a wrong key for a thread that has a log was
\* refused
C23_WrongKeyRefused ==
  /\ alast.op = "GetRecords" /\ alast.key # NoKey
  /\ Len(alast.key) = KeyLen
  /\ alogs[alast.tid] > 0
  /\ alast.code = "Unauthenticated" /\ alast.records = 0

\* C24: after a PushLog that carried a read key returned without error, the
\* receiver holds the read key whenever it held none before the call, also
\* when it did not know the thread and installed it from the service key of
\* the same request
C24_PushLogInstallsReadKey ==
  (xlast.called /\ xlast.req.rk /\ ~xlast.err /\ xlast.before # "full")
    => xlast.after = "full"

\* C25: DB.Close always returns: once it has started it is never left
\* waiting forever for the threadToStore and storeToThread tasks, also when
\* one of them is applying a remote record and needs the DB lock
C25_CloseReturns == (kclose = "locked") ~> (kclose = "returned")

\* C26: while a network call is in progress (a dial, a block fetch, a wait
\* for the next message of a streamed transaction), neither the DB lock nor
\* the connection-cache lock is held
C26_NoLockAcrossNetworkCall ==
  NetworkCallInProgress => (wdb = "free" /\ dlk = "free")

\* C27: a block fetch makes at most three attempts and returns the first
\* block it gets; when all three fail its caller gets an error and the
\* events of the record are not dispatched
C27_BlockFetchThreeAttempts ==
  wrec.block.tried =>
    /\ wrec.block.attempts <= 3
    /\ wrec.block.node => ~wrec.block.err
    /\ ~wrec.block.node =>
         (wrec.block.err /\ wrec.res = "error" /\ wrec.pc = "idle")

\* C28: after a dial to a peer returned an error, the connection cache holds
\* no connection for that peer
C28_FailedDialNotCached ==
  (dres.called /\ dres.err) => dconns[dres.peer] = "none"

\* C29: two Dispatch calls never overlap: at most one call is between its
\* store write and the end of its reducers, and every reducer sees the
\* dispatched events in the one order in which they were stored
C29_DispatchCallsDoNotOverlap ==
  /\ Cardinality({c \in DispatchCallers : zcall[c].pc \in {"put", "reduce"}}) <= 1
  /\ \A r \in DispatchReducers : IsPrefix(zred[r], zstore)
  /\ \A r \in DispatchReducers :
       Len(zred[r]) >= Len(zstore) - 1

\* C29 witness: a second Dispatch waits for the lock while the reducers of
\* the first run
C29_SecondDispatchWaits ==
  \E c, d \in DispatchCallers :
    /\ zcall[c].pc = "reduce" /\ zcall[c].pending # DispatchReducers
    /\ zcall[d].pc = "lock"
    /\ Len(zstore) >= 2

\* C30: the events of a locally committed transaction are reduced into the
\* local collections once, by the commit; when the record that carries them
\* comes back to the DB from the replication engine the collections and
\* their index stay as they are
C30_OwnRecordNotReapplied ==
  [][\A p \in Peers :
       /\ papplied'[p][p] # papplied[p][p] =>
            (pstore'[p] = pstore[p] /\ pindex'[p] = pindex[p])
       /\ plog'[p] # plog[p] =>
            pstore'[p] = CodecReduce(pstore[p], pindex[p],
                                     plog'[p][Len(plog'[p])]).store]_vars

\* C30 witness: every own record of a peer that committed twice has come
\* back to it
C30_OwnRecordsCameBack ==
  \E p \in Peers :
    /\ Len(plog[p]) = MaxCommits
    /\ papplied[p][p] = Len(plog[p])
    /\ \E i \in IDs : pstore[p][i] # Nil

\* C31: when the Commit of a write transaction returns an error, the local
\* state is as it was before the transaction: no event of it is in the
\* dispatcher store, no instance has changed and no listener was sent an
\* action
C31_FailedCommitLeavesState ==
  [][(disp.phase = "return" /\ disp.owner = "writer" /\ disp'.phase = "none"
        /\ last'.err)
       => /\ store' = txn.start
          /\ \A p \in dstore' : p.value.Time <= txn.startClock
          /\ disp.sent = 0]_vars

\* C32: no action is ever sent on a closed listener channel, also when
\* Listener.Close runs while a commit or a remote dispatch notifies
C32_NoSendOnClosedChannel == hpanic # "send on closed channel"

\* C33: each listener channel is closed at most once, in whatever order
\* Listener.Close and DB.Close are called
C33_ChannelClosedOnce == \A l \in LifeListeners : hchan[l].closes <= 1

\* C34: when the reply of ExchangeEdges has been processed, a follow-up call
\* is scheduled for a thread exactly when the edge the responder computed for
\* that thread exists and differs from the requester's local edge of that
\* same thread, also when some threads were left out of the request
C34_ReplyEdgeMatchedWithItsThread ==
  (epc = "done" /\ ereply # <<>>) =>
    /\ \A s \in esched :
         \E i \in 1..Len(ereply) :
           /\ ereq[i].tid = s[2]
           /\ ereply[i].exists
           /\ s[1] = "GetLogs" => ereply[i].a # ledge["req"][s[2]].a
           /\ s[1] = "GetRecords" => ereply[i].h # ledge["req"][s[2]].h
    /\ \A i \in 1..Len(ereply) :
         LET t == ereq[i].tid
         IN (ereply[i].exists /\ localEdges(ledge["req"][t]) = "nil") =>
              /\ ereply[i].a # ledge["req"][t].a => <<"GetLogs", t>> \in esched
              /\ ereply[i].h # ledge["req"][t].h => <<"GetRecords", t>> \in esched

\* C35: every dispatched event keeps its own entry in the dispatcher store:
\* a batch that is persisted adds as many entries as it has events, also
\* when two of them are saves of the same instance in one transaction (the
\* batches looked at hold no instance created twice)
C35_EveryEventKeepsItsEntry ==
  [][(/\ disp.phase = "persist"
      /\ disp'.phase = "reduce"
      /\ \A i, j \in 1..Len(disp.events) :
           (i # j /\ disp.events[i].Type = ActionCreate
                  /\ disp.events[j].Type = ActionCreate)
             => disp.events[i].InstanceID # disp.events[j].InstanceID)
       => Cardinality(dstore') = Cardinality(dstore) + Len(disp.events)]_vars

\* C36: after every applied batch the index on the secondary path agrees
\* with the stored instances: a key listed under a value belongs to a stored
\* instance with that value; the instance the batch created or saved is
\* listed under its value and no other; and an instance that was listed
\* under its value stays listed when another instance is written
C36_IndexAgreesWithInstances ==
  [][((ustore' # ustore \/ uindex' # uindex) /\ emailIndex \in uindexes)
       => LET id == ulast'.id
          IN /\ IndexSound(ustore', uindex')
             /\ ustore'[id] # Nil =>
                  \A v \in Bodies : Listed(uindex', v, id) <=> ustore'[id] = v
             /\ \A k \in IDs \ {id}, v \in Bodies :
                  (Listed(uindex, v, k) /\ ustore[k] = v)
                    => Listed(uindex', v, k)]_vars

\* C40: keyList.remove(k) deletes the element equal to k and nothing else:
\* a write of one instance takes no key but that instance's own out of a
\* bucket of the index, also when the instance was not listed in the bucket
C40_RemoveDeletesOnlyTheKey ==
  [][\A v \in Bodies, k \in IDs :
       (Listed(uindex, v, k) /\ ~Listed(uindex', v, k)) => ulast'.id = k]_vars

\* C37: a write transaction never holds two Create actions for the same
\* instance id: a Create of an id that was created earlier in the same
\* transaction is rejected
C37_NoTwoCreatesOfOneInstance ==
  \A i, j \in 1..Len(txn.actions) :
    (i # j /\ txn.actions[i].Type = ActionCreate
           /\ txn.actions[j].Type = ActionCreate)
      => txn.actions[i].InstanceID # txn.actions[j].InstanceID

\* C38: every log that GetThread enumerates has a stored public key, so
\* GetThread does not fail with LogNotFound for a thread whose service key
\* is stored, also after a GetRecords reply added addresses of a log
C38_EnumeratedLogsHaveKeys ==
  gservice => /\ gaddrs \subseteq gkeys
              /\ glast # "ErrLogNotFound"

====
